---- MODULE Spec2Model ----
(***************************************************************************)
(* A model of the cache package of Adirelle/go-libs: the single-flight     *)
(* layer (src/cache/singleflight.go), the memory and void leaves and the   *)
(* loader (src/cache/cache.go), and the bounded eviction layer with its    *)
(* LRU and LFU strategies (src/cache/eviction.go).                         *)
(*                                                                         *)
(* Each part of the package has its own specification over its own group   *)
(* of variables; the other groups stay at their initial values.            *)
(***************************************************************************)
EXTENDS Integers, Sequences, FiniteSets, TLC

(***************************************************************************)
(* Bounds of the single-flight model.                                      *)
(***************************************************************************)
MaxOps == 4        \* operations the callers issue in one run, in all
MaxLiveOps == 2    \* the same, in the runs checked for progress

\* Two concurrent callers, as in the package's single-flight tests; each
\* issues any number of the MaxOps operations, one after the other.
Procs == {1, 2}

\* The callers work on one key (the layer keeps one Call per key, and keys
\* meet only at the mutex), with two values to tell a put value from a
\* loaded one.
SFKeys == {1}
Vals == {1, 2}

\* nil, as a value and as an error; ErrKeyNotFound (cache.go)
Nil == 0
NoErr == "nil"
ErrKeyNotFound == "ErrKeyNotFound"
\* An error of an inner cache's Put
ErrPut == "ErrPut"
\* An error of an inner cache other than ErrKeyNotFound
ErrIO == "ErrIO"
\* ErrCacheFull (cache.go)
ErrCacheFull == "ErrCacheFull"

\* The pipelines the single-flight layer is put on:
\*   "mem"      SingleFlight over NewMemoryStorage
\*   "loadvoid" SingleFlight over NewLoader(f) (a loader over the void leaf)
\*   "loadmem"  SingleFlight over Loader(f) over NewMemoryStorage
Pipes == {"mem", "loadvoid", "loadmem"}

VARIABLES
    pipe,       \* the pipeline under the single-flight layer
    store,      \* the memory leaf: key -> value, Nil when absent
    fcalls,     \* singleFlight.calls: key -> Call id, 0 when no entry
    fmu,        \* singleFlight's mutex: 0 when free, else the caller holding it
    cl,         \* the Call objects created so far, by id
    pc,         \* per caller: where it is in its current operation
    arg,        \* per caller: the current operation and its arguments
    lcall,      \* per caller: local c (the Call looked up by Get or Remove)
    lremoved,   \* per caller: local removed of Remove
    snap,       \* per caller: the Calls Flush waits for
    ret,        \* per caller: what its last finished operation returned
    nops,       \* operations started so far
    settled,    \* history, per key: the last Put/Remove that returned with no other since
                \* (racing: over Loader over memory, a load of the key was in
                \* flight when the Put returned)
    gexp,       \* history, per caller: settled[key] when its Get started, if still valid
                \* (quiet: the Put was racing, and when the Get started no load
                \* of the key was in flight and the table held no Call of the key)
    garr        \* history, per caller: the unresolved Call of its key when its Get started

sfVars == <<pipe, store, fcalls, fmu, cl, pc, arg, lcall, lremoved, snap, ret,
            nops, settled, gexp, garr>>

(***************************************************************************)
(* Bounds of the eviction models.                                          *)
(***************************************************************************)
NumStratKeys == 3  \* keys given to a strategy on its own
MaxClock == 4      \* Added and Hit calls on a strategy on its own
NumEvKeys == 3     \* keys put through the eviction layer
MaxCap == 2        \* largest maxLen of the eviction layer
MaxTrack == 3      \* nodes or heap elements of the layer's strategy
MaxCount == 1      \* hit count of a heap element of the layer's strategy

\* The capacity of the scenario's eviction layer (TestEvictingCache)
ScenarioCap == 3

VARIABLES
    strat       \* the EvictionStrategy: [kind, list, heap]

VARIABLES
    sMode,      \* "free": any calls on the strategy; "script": the test's calls
    sStep,      \* calls of the script made so far, -1 once off the script
    sRet,       \* what the last call on the strategy returned
    sExp,       \* history: what the last call had to return
    clock,      \* history: Added and Hit calls so far
    gtrack,     \* history: tracked key -> [last use, hits]
    dupAdded    \* history: Added was called for a key already tracked

VARIABLES
    evMode,     \* "free": any calls through the layer; "script": the scenario's calls;
                \* "faulty": any calls, over an inner cache whose Put can fail
    evStep,     \* calls of the scenario made so far, -1 once off the scenario
    evMaxLen,   \* evictingCache.maxLen
    evStore,    \* the memory leaf under the eviction layer: key -> value
    evRet       \* what the last call through the layer returned

(***************************************************************************)
(* Bounds of the expiration model. Time is counted in seconds from the     *)
(* clock's start.                                                          *)
(***************************************************************************)
MaxNow == 3        \* latest time the clock is advanced to
MaxTtl == 2        \* longest TTL of the layer or of a PutWithTTL

\* The keys and values put through the expiration layer
XKeys == {1, 2}
XVals == {1, 2}

\* The TTL of the test's expiration layer, in seconds (TestExpiringCache)
ScenarioTtl == 8

VARIABLES
    xVariant,   \* "map": dates is a Go map; "syncmap": dates is a sync.Map;
                \* "set": the map variant whose Set flushes (src/unnamed/part_017)
    xInner,     \* "mem": the memory leaf; "faulty": a leaf whose Put (and, under
                \* the "set" variant, Flush) can fail
    xMode,      \* "free": any calls through the layer; "script": the test's calls
    xStep,      \* calls of the test made so far, -1 once off the test
    xTtl,       \* expiringCache.ttl
    xNow,       \* what Clock.Now() returns
    xStore,     \* the leaf under the expiration layer: key -> value
    xDates,     \* expiringCache.dates: key -> deadline
    xRet,       \* what the last call through the layer returned
    xPut,       \* history: key -> [at, ttl] of its last Put, if not removed since
    xPre        \* history: the leaf, the deadlines and the time when Flush was called

(***************************************************************************)
(* Bounds of the write-through model.                                      *)
(***************************************************************************)
MaxWOps == 4       \* operations the callers issue in one run, in all

\* The keys and values put through the write-through layer
WKeys == {1, 2}
WVals == {1, 2}

VARIABLES
    wTiers,     \* "mem": two memory leaves; "faulty": tiers whose Put and Flush can fail
    wOuter,     \* the outer tier: key -> value
    wInner,     \* the inner tier: key -> value
    wMu,        \* writeThrough.mu: 0 when free, else the caller holding it
    wPc,        \* per caller: where it is in its current operation
    wArg,       \* per caller: the current operation and its arguments
    wLoc,       \* per caller: the operation's results so far, and its history
    wRet,       \* per caller: what its last finished operation returned
    wOps        \* operations started so far

(***************************************************************************)
(* Bounds of the model of the observing and validating layers.             *)
(***************************************************************************)
MaxLOps == 4       \* operations the caller issues in one run
MaxChan == 2       \* largest capacity of the emitter's channel

\* The keys and values of the calls
LKeys == {5, 7}
LVals == {6, 8}

VARIABLES
    lyKind,     \* the layer: "logErrors", "emitter", "validator" or "loader"
    lyInner,    \* the inner cache: "void", "mem", or "faulty" (a leaf that can fail)
    lyCap,      \* capacity of the emitter's channel
    lyStore,    \* the inner cache's entries: key -> value
    lyCh,       \* the emitter's channel: the events sent and not yet received
    lyRet,      \* the last call: what the inner cache and the layer returned
    lyLog,      \* the errors the last call passed to the log function
    lyPre,      \* history: the entries and the channel when the last call started
    lyOps       \* operations started so far

(***************************************************************************)
(* Bounds and state of the Locking layer, of a cache built from a leaf and *)
(* a list of options, and of the capacity-driven eviction layer.           *)
(***************************************************************************)
MaxKOps == 3       \* operations the callers of the Locking layer issue, in all
MaxSOps == 4       \* operations the caller of a built cache issues
MaxBCap == 2       \* largest capacity of the backend of capacity-driven eviction
MaxCOps == 4       \* operations through capacity-driven eviction

\* The keys and values of the tests (serializer_test.go, part_012)
StKeys == {5, 50}
StVals == {6, 60}
CdKeys == {1, 2, 3}

VARIABLES
    lkMu,       \* locking's mutex: 0 when free, else the caller holding it
    lkPc,       \* per caller: idle, at Lock, in the inner operation, at the deferred Unlock
    lkArg,      \* per caller: the current operation and its arguments
    lkStore,    \* the inner cache's entries: key -> value
    lkRet,      \* per caller: what the inner operation returned
    lkOps       \* operations started so far

VARIABLES
    stOpts,     \* the options as listed in the constructor call
    stStack,    \* the cache built: its layers from the outermost to the leaf
    stItems,    \* the leaf's entries: key -> value
    stBucket,   \* boltStorage: whether the bucket has been created
    stRet,      \* the last call: what it returned, the layers it went through,
                \* what the leaf received, the events published, the loads made
    stPrev,     \* history: stRet of the call before
    stLast,     \* history: key -> value of the caller's last Put, until its Remove
    stOps       \* operations started so far

VARIABLES
    cdKind,     \* the strategy: "LRU" or "LFU"
    cdCap,      \* the backend's capacity
    cdFaulty,   \* whether the backend's Set can fail with an error of its own
    cdStore,    \* the backend's entries: key -> value
    cdKeys,     \* the strategy's keys: the list front first, or the heap's array
    cdRet,      \* the last call: what it returned, the evictions it made
    cdOps       \* operations started so far

(***************************************************************************)
(* Bounds and state of the bounded eviction layer under concurrent Puts.   *)
(***************************************************************************)
MaxCePuts == 3     \* Puts the callers issue in one run, in all

VARIABLES
    ceMax,      \* evictingCache.maxLen
    ceItems,    \* the memory leaf's keys
    ceStrat,    \* the layer's strategy
    cePc,       \* per caller: its place in evictingCache.Put
    ceKey,      \* per caller: the key of its Put
    ceEvict,    \* per caller: toEvict
    ceFound,    \* per caller: what the inner Remove returned
    ceNext,     \* the next fresh key
    ceFatal     \* the runtime has stopped the program: concurrent map writes

lkVars == <<lkMu, lkPc, lkArg, lkStore, lkRet, lkOps>>
ceVars == <<ceMax, ceItems, ceStrat, cePc, ceKey, ceEvict, ceFound, ceNext, ceFatal>>
stVars == <<stOpts, stStack, stItems, stBucket, stRet, stPrev, stLast, stOps>>
cdVars == <<cdKind, cdCap, cdFaulty, cdStore, cdKeys, cdRet, cdOps>>
builtVars == <<lkVars, stVars, cdVars, ceVars>>

stratVars == <<strat>>
lyVars == <<lyKind, lyInner, lyCap, lyStore, lyCh, lyRet, lyLog, lyPre, lyOps>>
wVars == <<wTiers, wOuter, wInner, wMu, wPc, wArg, wLoc, wRet, wOps>>
suVars == <<sMode, sStep, sRet, sExp, clock, gtrack, dupAdded>>
evVars == <<evMode, evStep, evMaxLen, evStore, evRet>>
xVars == <<xVariant, xInner, xMode, xStep, xTtl, xNow, xStore, xDates, xRet, xPut, xPre>>

\* The single-flight and eviction parts, and the layers that wrap one inner
\* cache.
coreVars == <<sfVars, stratVars, suVars, evVars>>
layerVars == <<xVars, wVars, lyVars>>

vars == <<coreVars, layerVars, builtVars>>

\* What the actions of one part leave alone.
notSF == <<stratVars, suVars, evVars, layerVars, builtVars>>
notSU == <<sfVars, evVars, layerVars, builtVars>>
notEv == <<sfVars, suVars, layerVars, builtVars>>
notX == <<coreVars, wVars, lyVars, builtVars>>
notW == <<coreVars, xVars, lyVars, builtVars>>
notLy == <<coreVars, xVars, wVars, builtVars>>
notLk == <<coreVars, layerVars, stVars, cdVars, ceVars>>
notSt == <<coreVars, layerVars, lkVars, cdVars, ceVars>>
notCd == <<coreVars, layerVars, lkVars, stVars, ceVars>>
notCe == <<coreVars, layerVars, lkVars, stVars, cdVars>>

HasLoader == pipe \in {"loadvoid", "loadmem"}
HasMemory == pipe \in {"mem", "loadmem"}

NoArg == [op |-> "none", key |-> 0, val |-> Nil]
NoRet == [op |-> "none", key |-> 0, val |-> Nil, err |-> NoErr, ok |-> FALSE, call |-> 0,
          found |-> FALSE, first |-> FALSE]
NoSettled == [kind |-> "none", val |-> Nil, racing |-> FALSE, quiet |-> FALSE]

(***************************************************************************)
(* The leaves (memoryStorage and voidStorage) as the single-flight layer   *)
(* sees them through the loader, which delegates Put and Remove unchanged. *)
(***************************************************************************)
\* memoryStorage.Get / voidStorage.Get: <<value, err>>
LeafGet(k) ==
    IF HasMemory /\ store[k] # Nil THEN <<store[k], NoErr>>
    ELSE <<Nil, ErrKeyNotFound>>

\* memoryStorage.Put / voidStorage.Put: the store afterwards (both return nil)
LeafPut(k, v) ==
    IF HasMemory THEN [store EXCEPT ![k] = v] ELSE store

\* memoryStorage.Remove / voidStorage.Remove: whether the key was found
LeafRemoved(k) == HasMemory /\ store[k] # Nil

LeafRemove(k) ==
    IF HasMemory THEN [store EXCEPT ![k] = Nil] ELSE store

(***************************************************************************)
(* call (singleflight.go): newCall, Resolve, Await.                        *)
(***************************************************************************)
\* newCall: a fresh unresolved Call whose background goroutine is about to
\* run process(), the inner Get. History: dones counts c.Done(), hooks the
\* starts of the on-resolve hook, fl holds the callers whose Flush in
\* progress or last returned found the Call in the table when it locked.
NewCall(k) ==
    [key |-> k, resolved |-> FALSE, value |-> Nil, err |-> NoErr,
     bg |-> "get", bgv |-> Nil, bge |-> NoErr, gets |-> 0,
     hook |-> "none", by |-> "none", byv |-> Nil,
     dones |-> 0, hooks |-> 0, fl |-> {}]

\* call.Resolve, all of it under the Call's own mutex: only the first call
\* stores a result, starts the on-resolve hook and releases the waiters.
\* A Resolve that has lost the resolved flag's test: every call stores.
ResolveCall_LastWins(c, v, e) ==
    [c EXCEPT !.resolved = TRUE,
              !.err = IF e # NoErr THEN e ELSE c.err,
              !.value = IF e # NoErr THEN c.value ELSE v,
              !.hook = IF c.resolved THEN c.hook ELSE "pending",
              !.dones = @ + 1, !.hooks = @ + 1]

\* A Resolve that stores nothing and releases no waiter.
ResolveCall_NoDone(c, v, e) == c

ResolveCall(c, v, e) ==
    IF c.resolved THEN c
    ELSE [c EXCEPT !.resolved = TRUE,
                   !.err = IF e # NoErr THEN e ELSE c.err,
                   !.value = IF e # NoErr THEN c.value ELSE v,
                   !.hook = "pending",
                   !.dones = @ + 1, !.hooks = @ + 1]

\* c.Resolve(v, e) by who, with the history of who found the Call unresolved
\* (by) and with which value (byv).
Resolved(c, v, e, who) ==
    IF c.resolved THEN ResolveCall(c, v, e)
    ELSE [ResolveCall(c, v, e) EXCEPT !.by = who, !.byv = v]

\* A Call of key k whose goroutine has not left process(): its inner Get,
\* with the load and the write-back of the loader, is in flight.
LoadInFlight(k) ==
    \E i \in 1..Len(cl) : cl[i].key = k /\ cl[i].bg \in {"get", "load", "put"}

\* A Get that never finds the Call of another Get.
LookupCall_NoDedup(k) == 0

\* The entry Get finds in singleFlight.calls for the key (0: none).
LookupCall(k) == fcalls[k]

\* Puts and Removes of key k by callers other than p that have started and
\* not returned.
MutatingOthers(p, k) ==
    {q \in Procs \ {p} : pc[q] \in {"putResolve", "rmResolve"} /\ arg[q].key = k}

\* A Put or Remove of k starts: nothing is settled for k any more, for the
\* key and for the Gets of k in progress.
Unsettle(k) ==
    /\ settled' = [settled EXCEPT ![k] = NoSettled]
    /\ gexp' = [q \in Procs |->
                  IF pc[q] = "await" /\ arg[q].key = k THEN NoSettled ELSE gexp[q]]

\* Caller p returns r; its locals go out of scope.
Finish(p, r) ==
    /\ pc' = [pc EXCEPT ![p] = "idle"]
    /\ ret' = [ret EXCEPT ![p] = r]
    /\ arg' = [arg EXCEPT ![p] = NoArg]
    /\ lcall' = [lcall EXCEPT ![p] = 0]
    /\ lremoved' = [lremoved EXCEPT ![p] = FALSE]
    /\ snap' = [snap EXCEPT ![p] = {}]

\* Caller p starts the operation a.
CanStart(p) == pc[p] = "idle" /\ nops < MaxOps

Start(p, a, where) ==
    /\ pc' = [pc EXCEPT ![p] = where]
    /\ arg' = [arg EXCEPT ![p] = a]
    /\ ret' = [ret EXCEPT ![p] = NoRet]
    /\ nops' = nops + 1

(***************************************************************************)
(* singleFlight.Get                                                        *)
(***************************************************************************)
\* Lock; look the Call up, or create it and start its goroutine; Unlock.
SFGet(p, k) ==
    /\ CanStart(p)
    /\ fmu = 0
    /\ LET c == LookupCall(k)
           unresolved == {i \in 1..Len(cl) : cl[i].key = k /\ ~cl[i].resolved}
       IN /\ IF c = 0
             THEN /\ cl' = Append(cl, NewCall(k))
                  /\ fcalls' = [fcalls EXCEPT ![k] = Len(cl) + 1]
                  /\ lcall' = [lcall EXCEPT ![p] = Len(cl) + 1]
             ELSE /\ lcall' = [lcall EXCEPT ![p] = c]
                  /\ UNCHANGED <<cl, fcalls>>
          /\ garr' = [garr EXCEPT ![p] =
                        IF unresolved = {} THEN 0 ELSE CHOOSE i \in unresolved : TRUE]
    /\ gexp' = [gexp EXCEPT ![p] =
                    [settled[k] EXCEPT !.quiet = (settled[k].racing /\ ~LoadInFlight(k)
                                                  /\ fcalls[k] = 0)]]
    /\ Start(p, [op |-> "get", key |-> k, val |-> Nil], "await")
    /\ UNCHANGED <<pipe, store, fmu, lremoved, snap, settled>>
    /\ UNCHANGED notSF

\* c.Await(): Wait for the Call, then return its value and error.
SFAwait(p) ==
    /\ pc[p] = "await"
    /\ cl[lcall[p]].resolved
    /\ Finish(p, [NoRet EXCEPT !.op = "get", !.key = arg[p].key,
                               !.val = cl[lcall[p]].value,
                               !.err = cl[lcall[p]].err, !.call = lcall[p]])
    /\ UNCHANGED <<pipe, store, fcalls, fmu, cl, nops, settled, gexp, garr>>
    /\ UNCHANGED notSF

(***************************************************************************)
(* singleFlight.Put                                                        *)
(***************************************************************************)
\* Lock; err = f.Cache.Put(key, value)
SFPutLock(p, k, v) ==
    /\ CanStart(p)
    /\ fmu = 0
    /\ fmu' = p
    /\ store' = LeafPut(k, v)
    /\ Start(p, [op |-> "put", key |-> k, val |-> v], "putResolve")
    /\ Unsettle(k)
    /\ garr' = [garr EXCEPT ![p] = 0]
    /\ UNCHANGED <<pipe, fcalls, cl, lcall, lremoved, snap>>
    /\ UNCHANGED notSF

\* c := f.calls[key]; if c != nil { c.Resolve(value, err) }; Unlock; return err
SFPutResolve(p) ==
    /\ pc[p] = "putResolve"
    /\ LET k == arg[p].key
           c == fcalls[k]
       IN /\ cl' = IF c # 0
                   THEN [cl EXCEPT ![c] = Resolved(cl[c], arg[p].val, NoErr, "put")]
                   ELSE cl
          /\ settled' = [settled EXCEPT ![k] =
                           IF MutatingOthers(p, k) = {}
                           THEN [NoSettled EXCEPT !.kind = "put", !.val = arg[p].val,
                                                  !.racing = (pipe = "loadmem" /\ LoadInFlight(k))]
                           ELSE NoSettled]
          /\ Finish(p, [NoRet EXCEPT !.op = "put", !.key = k, !.val = arg[p].val,
                                     !.call = c])
    /\ fmu' = 0
    /\ UNCHANGED <<pipe, store, fcalls, nops, gexp, garr>>
    /\ UNCHANGED notSF

\* A Remove that forgets removed = true after resolving a Call.
RemoveResult_InnerOnly(c, found) == found

\* What Remove returns: c is the Call it captured (0: none), found the inner
\* Remove's result.
RemoveResult(c, found) == IF c # 0 THEN TRUE ELSE found

(***************************************************************************)
(* singleFlight.Remove                                                     *)
(***************************************************************************)
\* Lock; c := f.calls[key]; removed = f.Cache.Remove(key); Unlock
SFRemoveLock(p, k) ==
    /\ CanStart(p)
    /\ fmu = 0
    /\ lcall' = [lcall EXCEPT ![p] = fcalls[k]]
    /\ lremoved' = [lremoved EXCEPT ![p] = LeafRemoved(k)]
    /\ store' = LeafRemove(k)
    /\ Start(p, [op |-> "remove", key |-> k, val |-> Nil], "rmResolve")
    /\ Unsettle(k)
    /\ garr' = [garr EXCEPT ![p] = 0]
    /\ UNCHANGED <<pipe, fcalls, fmu, cl, snap>>
    /\ UNCHANGED notSF

\* if c != nil { c.Resolve(nil, ErrKeyNotFound); removed = true }; return removed
\* History of the return: found is the inner Remove's result, first whether
\* this Resolve found the Call unresolved.
SFRemoveResolve(p) ==
    /\ pc[p] = "rmResolve"
    /\ LET k == arg[p].key
           c == lcall[p]
           removed == RemoveResult(c, lremoved[p])
       IN /\ cl' = IF c # 0
                   THEN [cl EXCEPT ![c] = Resolved(cl[c], Nil, ErrKeyNotFound, "remove")]
                   ELSE cl
          /\ settled' = [settled EXCEPT ![k] =
                           IF MutatingOthers(p, k) = {} /\ removed
                           THEN [NoSettled EXCEPT !.kind = "removed"]
                           ELSE NoSettled]
          /\ Finish(p, [NoRet EXCEPT !.op = "remove", !.key = k, !.ok = removed,
                                     !.call = c, !.found = lremoved[p],
                                     !.first = (c # 0 /\ ~cl[c].resolved)])
    /\ UNCHANGED <<pipe, store, fcalls, fmu, nops, gexp, garr>>
    /\ UNCHANGED notSF

(***************************************************************************)
(* singleFlight.Flush                                                      *)
(***************************************************************************)
\* A Flush that waits for no Call.
FlushCalls_None == {}

\* for _, c := range f.calls: the Calls of the table
FlushCalls == {fcalls[k] : k \in SFKeys} \ {0}

\* Lock; one waiting goroutine per Call of the table; f.Cache.Flush(); Unlock
SFFlushLock(p) ==
    /\ CanStart(p)
    /\ fmu = 0
    /\ snap' = [snap EXCEPT ![p] = FlushCalls]
    /\ cl' = [i \in 1..Len(cl) |->
                [cl[i] EXCEPT !.fl = IF \E k \in SFKeys : fcalls[k] = i
                                     THEN @ \cup {p} ELSE @ \ {p}]]
    /\ Start(p, [op |-> "flush", key |-> 0, val |-> Nil], "flushWait")
    /\ gexp' = [gexp EXCEPT ![p] = NoSettled]
    /\ garr' = [garr EXCEPT ![p] = 0]
    /\ UNCHANGED <<pipe, store, fcalls, fmu, lcall, lremoved, settled>>
    /\ UNCHANGED notSF

\* wg.Wait(): every Call of the snapshot has been awaited
SFFlushReturn(p) ==
    /\ pc[p] = "flushWait"
    /\ \A i \in snap[p] : cl[i].resolved
    /\ Finish(p, [NoRet EXCEPT !.op = "flush"])
    /\ UNCHANGED <<pipe, store, fcalls, fmu, cl, nops, settled, gexp, garr>>
    /\ UNCHANGED notSF

(***************************************************************************)
(* The goroutine newCall starts: c.Resolve(process()), where process is    *)
(* f.Cache.Get(key): the leaf's Get, through loader.Get when there is a    *)
(* loader. It holds no lock of the layer. The read of the memory leaf is   *)
(* one step taken at any point of the goroutine's run, so a read that      *)
(* races with a Put or Remove sees the entry before or after it.           *)
(***************************************************************************)
\* l.Cache.Get(key) (loader.Get), or the leaf's Get itself
BgInnerGet(i) ==
    /\ i \in 1..Len(cl)
    /\ cl[i].bg = "get"
    /\ LET r == LeafGet(cl[i].key)
       IN cl' = [cl EXCEPT ![i] =
                   [@ EXCEPT !.gets = @ + 1,
                             !.bgv = r[1],
                             !.bge = r[2],
                             !.bg = IF HasLoader /\ r[2] = ErrKeyNotFound
                                    THEN "load" ELSE "resolve"]]
    /\ UNCHANGED <<pipe, store, fcalls, fmu, pc, arg, lcall, lremoved, snap, ret,
                   nops, settled, gexp, garr>>
    /\ UNCHANGED notSF

\* value, err = l.f(key): the loader function returns some value
BgLoad(i) ==
    /\ i \in 1..Len(cl)
    /\ cl[i].bg = "load"
    /\ \E v \in Vals :
          cl' = [cl EXCEPT ![i] = [@ EXCEPT !.bgv = v, !.bge = NoErr, !.bg = "put"]]
    /\ UNCHANGED <<pipe, store, fcalls, fmu, pc, arg, lcall, lremoved, snap, ret,
                   nops, settled, gexp, garr>>
    /\ UNCHANGED notSF

\* err = l.Cache.Put(key, value): the loader's write-back
BgWriteBack(i) ==
    /\ i \in 1..Len(cl)
    /\ cl[i].bg = "put"
    /\ store' = LeafPut(cl[i].key, cl[i].bgv)
    /\ cl' = [cl EXCEPT ![i] = [@ EXCEPT !.bg = "resolve"]]
    /\ UNCHANGED <<pipe, fcalls, fmu, pc, arg, lcall, lremoved, snap, ret,
                   nops, settled, gexp, garr>>
    /\ UNCHANGED notSF

\* c.Resolve(value, err) with what process() returned
BgResolve(i) ==
    /\ i \in 1..Len(cl)
    /\ cl[i].bg = "resolve"
    /\ cl' = [cl EXCEPT ![i] =
                [Resolved(cl[i], cl[i].bgv, cl[i].bge, "bg") EXCEPT !.bg = "done"]]
    /\ UNCHANGED <<pipe, store, fcalls, fmu, pc, arg, lcall, lremoved, snap, ret,
                   nops, settled, gexp, garr>>
    /\ UNCHANGED notSF

\* The on-resolve hook, a goroutine of its own: Lock; delete(f.calls, key); Unlock
SFCleanup(i) ==
    /\ i \in 1..Len(cl)
    /\ cl[i].hook = "pending"
    /\ fmu = 0
    /\ fcalls' = [fcalls EXCEPT ![cl[i].key] = 0]
    /\ cl' = [cl EXCEPT ![i] = [@ EXCEPT !.hook = "done"]]
    /\ UNCHANGED <<pipe, store, fmu, pc, arg, lcall, lremoved, snap, ret,
                   nops, settled, gexp, garr>>
    /\ UNCHANGED notSF

\* The single-flight layer just built, on the pipeline pp.
SFStart(pp) ==
    /\ pipe = pp
    /\ store = [k \in SFKeys |-> Nil]
    /\ fcalls = [k \in SFKeys |-> 0]
    /\ fmu = 0
    /\ cl = <<>>
    /\ pc = [p \in Procs |-> "idle"]
    /\ arg = [p \in Procs |-> NoArg]
    /\ lcall = [p \in Procs |-> 0]
    /\ lremoved = [p \in Procs |-> FALSE]
    /\ snap = [p \in Procs |-> {}]
    /\ ret = [p \in Procs |-> NoRet]
    /\ nops = 0
    /\ settled = [k \in SFKeys |-> NoSettled]
    /\ gexp = [p \in Procs |-> NoSettled]
    /\ garr = [p \in Procs |-> 0]

SFNext ==
    \/ \E p \in Procs, k \in SFKeys : SFGet(p, k)
    \/ \E p \in Procs : SFAwait(p)
    \/ \E p \in Procs, k \in SFKeys, v \in Vals : SFPutLock(p, k, v)
    \/ \E p \in Procs : SFPutResolve(p)
    \/ \E p \in Procs, k \in SFKeys : SFRemoveLock(p, k)
    \/ \E p \in Procs : SFRemoveResolve(p)
    \/ \E p \in Procs : SFFlushLock(p)
    \/ \E p \in Procs : SFFlushReturn(p)
    \/ \E i \in 1..MaxOps : BgInnerGet(i)
    \/ \E i \in 1..MaxOps : BgLoad(i)
    \/ \E i \in 1..MaxOps : BgWriteBack(i)
    \/ \E i \in 1..MaxOps : BgResolve(i)
    \/ \E i \in 1..MaxOps : SFCleanup(i)


(***************************************************************************)
(* The eviction strategies (src/cache/eviction.go), as functions of the    *)
(* strategy's state. Keys are positive numbers; 0 stands for the nil key   *)
(* Pop returns when there is nothing to evict.                             *)
(***************************************************************************)
NoKey == 0

\* A map with entry k set to x / without entry k.
MapSet(m, k, x) == [y \in DOMAIN m \cup {k} |-> IF y = k THEN x ELSE m[y]]
MapDel(m, k) == [y \in DOMAIN m \ {k} |-> m[y]]
EmptyMap == [y \in {} |-> 0]

\* Sequence s without its element at position i.
DropAt(s, i) == SubSeq(s, 1, i - 1) \o SubSeq(s, i + 1, Len(s))

(***************************************************************************)
(* lruEviction: keys is the list of nodes, front first; elements maps a    *)
(* key to one node. A node is [key, ref], ref telling whether elements[key] *)
(* is this node.                                                           *)
(***************************************************************************)
\* elements[key] is found
LruFound(L, k) == \E i \in 1..Len(L) : L[i].key = k /\ L[i].ref

\* The place in the list of the node elements[key] names
LruPos(L, k) == CHOOSE i \in 1..Len(L) : L[i].key = k /\ L[i].ref

\* elements no longer names a node for k
LruUnref(L, k) ==
    [i \in 1..Len(L) |-> IF L[i].key = k THEN [L[i] EXCEPT !.ref = FALSE] ELSE L[i]]

\* lruEviction.Added: e.elements[key] = e.keys.PushFront(key)
LruAdded(L, k) == <<[key |-> k, ref |-> TRUE]>> \o LruUnref(L, k)

\* lruEviction.Removed: the list afterwards (found is LruFound)
LruRemoved(L, k) == IF LruFound(L, k) THEN DropAt(L, LruPos(L, k)) ELSE L

\* A Hit that leaves a tracked node where it is.
LruHit_NoMove(L, k) == IF LruFound(L, k) THEN L ELSE LruAdded(L, k)

\* lruEviction.Hit: MoveToFront, or Added when the key is not tracked
LruHit(L, k) ==
    IF LruFound(L, k)
    THEN <<L[LruPos(L, k)]>> \o DropAt(L, LruPos(L, k))
    ELSE LruAdded(L, k)

\* A Pop that takes the front of the list instead of its back.
LruPop_Front(L) ==
    IF L = <<>> THEN [key |-> NoKey, list |-> L]
    ELSE [key |-> L[1].key, list |-> LruUnref(Tail(L), L[1].key)]

\* lruEviction.Pop: the back node leaves the list, its key leaves elements
LruPop(L) ==
    IF L = <<>> THEN [key |-> NoKey, list |-> L]
    ELSE [key |-> L[Len(L)].key,
          list |-> LruUnref(SubSeq(L, 1, Len(L) - 1), L[Len(L)].key)]

(***************************************************************************)
(* countHeap and lfuEviction: keys and counts are the heap's vectors,      *)
(* index the map from a key to its place. Places count from 0, as in the   *)
(* code; place i is element i + 1 of the sequences.                        *)
(***************************************************************************)
EmptyHeap == [keys |-> <<>>, counts |-> <<>>, index |-> EmptyMap]

\* countHeap.Less
HLess(h, i, j) == h.counts[i + 1] < h.counts[j + 1]

\* countHeap.Swap: both vectors, then index[keys[i]] = i and index[keys[j]] = j
HSwap(h, i, j) ==
    LET ks == [h.keys EXCEPT ![i + 1] = h.keys[j + 1], ![j + 1] = h.keys[i + 1]]
        cs == [h.counts EXCEPT ![i + 1] = h.counts[j + 1], ![j + 1] = h.counts[i + 1]]
    IN [keys |-> ks, counts |-> cs,
        index |-> MapSet(MapSet(h.index, ks[i + 1], i), ks[j + 1], j)]

\* container/heap.up
RECURSIVE HUp(_, _)
HUp(h, j) ==
    LET i == IF j = 0 THEN 0 ELSE (j - 1) \div 2
    IN IF i = j \/ ~HLess(h, j, i) THEN h ELSE HUp(HSwap(h, i, j), i)

\* container/heap.down: the heap afterwards and the place the element reached
RECURSIVE HDown(_, _, _)
HDown(h, i, n) ==
    LET j1 == 2 * i + 1
        j == IF j1 + 1 < n /\ HLess(h, j1 + 1, j1) THEN j1 + 1 ELSE j1
    IN IF j1 >= n THEN [h |-> h, i |-> i]
       ELSE IF ~HLess(h, j, i) THEN [h |-> h, i |-> i]
       ELSE HDown(HSwap(h, i, j), j, n)

\* container/heap.Fix: if !down(h, i, h.Len()) { up(h, i) }
HeapFix(h, i) ==
    LET d == HDown(h, i, Len(h.keys))
    IN IF d.i > i THEN d.h ELSE HUp(h, i)

\* countHeap.Push
CountHeapPush(h, k) ==
    [keys |-> Append(h.keys, k), counts |-> Append(h.counts, 0),
     index |-> MapSet(h.index, k, Len(h.keys))]

\* countHeap.Pop: the last element leaves, its key leaves the index
CountHeapPop(h) ==
    LET n == Len(h.keys) - 1
    IN [key |-> h.keys[n + 1],
        heap |-> [keys |-> SubSeq(h.keys, 1, n), counts |-> SubSeq(h.counts, 1, n),
                  index |-> MapDel(h.index, h.keys[n + 1])]]

\* container/heap.Push: h.Push(x); up(h, h.Len()-1)
HeapPush(h, k) == HUp(CountHeapPush(h, k), Len(h.keys))

\* container/heap.Pop: Swap(0, n); down(h, 0, n); h.Pop()
HeapPop(h) ==
    LET n == Len(h.keys) - 1
    IN CountHeapPop(HDown(HSwap(h, 0, n), 0, n).h)

\* container/heap.Remove
HeapRemove(h, i) ==
    LET n == Len(h.keys) - 1
        s == HSwap(h, i, n)
        d == HDown(s, i, n)
    IN CountHeapPop(IF n # i THEN (IF d.i > i THEN d.h ELSE HUp(s, i)) ELSE h)

\* An Increase that counts the hit and leaves the element where it is.
CountHeapIncrease_NoFix(h, k) ==
    LET h1 == IF k \in DOMAIN h.index THEN h ELSE CountHeapPush(h, k)
        i == h1.index[k]
    IN [h1 EXCEPT !.counts[i + 1] = @ + 1]

\* countHeap.Increase
CountHeapIncrease(h, k) ==
    LET h1 == IF k \in DOMAIN h.index THEN h ELSE CountHeapPush(h, k)
        i == h1.index[k]
    IN HeapFix([h1 EXCEPT !.counts[i + 1] = @ + 1], i)

\* countHeap.Removed: the heap afterwards (found is k \in DOMAIN h.index)
CountHeapRemoved(h, k) ==
    IF k \in DOMAIN h.index THEN HeapRemove(h, h.index[k]).heap ELSE h

\* lfuEviction.Pop
LfuPop(h) ==
    IF Len(h.keys) > 0 THEN HeapPop(h) ELSE [key |-> NoKey, heap |-> h]

(***************************************************************************)
(* EvictionStrategy: a strategy is [kind, list, heap], list the LRU        *)
(* strategy's state and heap the LFU strategy's.                           *)
(***************************************************************************)
Kinds == {"LRU", "LFU"}

\* NewLRUEviction / NewLFUEviction
NewStrategy(kind) == [kind |-> kind, list |-> <<>>, heap |-> EmptyHeap]

\* EvictionStrategy.Added
StratAdded(s, k) ==
    IF s.kind = "LRU" THEN [s EXCEPT !.list = LruAdded(s.list, k)]
    ELSE [s EXCEPT !.heap = HeapPush(s.heap, k)]

\* EvictionStrategy.Removed: what it returns, and the strategy afterwards
StratFound(s, k) ==
    IF s.kind = "LRU" THEN LruFound(s.list, k) ELSE k \in DOMAIN s.heap.index

StratRemoved(s, k) ==
    IF s.kind = "LRU" THEN [s EXCEPT !.list = LruRemoved(s.list, k)]
    ELSE [s EXCEPT !.heap = CountHeapRemoved(s.heap, k)]

\* EvictionStrategy.Hit
StratHit(s, k) ==
    IF s.kind = "LRU" THEN [s EXCEPT !.list = LruHit(s.list, k)]
    ELSE [s EXCEPT !.heap = CountHeapIncrease(s.heap, k)]

\* EvictionStrategy.Pop: [key, strat]
StratPop(s) ==
    IF s.kind = "LRU"
    THEN [key |-> LruPop(s.list).key, strat |-> [s EXCEPT !.list = LruPop(s.list).list]]
    ELSE [key |-> LfuPop(s.heap).key, strat |-> [s EXCEPT !.heap = LfuPop(s.heap).heap]]

\* The keys a later Pop can return: the keys of the list's nodes, or of the heap.
StratKeys(s) ==
    IF s.kind = "LRU" THEN {s.list[i].key : i \in 1..Len(s.list)}
    ELSE {s.heap.keys[i] : i \in 1..Len(s.heap.keys)}

\* Number of nodes or heap elements, and the largest hit count.
StratSize(s) == IF s.kind = "LRU" THEN Len(s.list) ELSE Len(s.heap.keys)
StratMaxCount(s) ==
    IF s.kind = "LRU" \/ s.heap.counts = <<>> THEN 0
    ELSE CHOOSE c \in {s.heap.counts[i] : i \in 1..Len(s.heap.counts)} :
            \A i \in 1..Len(s.heap.counts) : s.heap.counts[i] <= c

(***************************************************************************)
(* A strategy on its own (TestLRUEviction, TestLFUEviction): any calls of  *)
(* Added, Hit, Removed and Pop over a few keys, or the calls of the        *)
(* package's test. Beside the strategy runs a reference: the keys tracked,  *)
(* each with the time of its last Added or Hit and its number of hits.     *)
(***************************************************************************)
\* TestLRUEviction: the calls, each with the key or the flag it has to return
LruScript ==
    << [op |-> "added", key |-> 1, exp |-> NoKey, ok |-> FALSE],
       [op |-> "added", key |-> 2, exp |-> NoKey, ok |-> FALSE],
       [op |-> "added", key |-> 3, exp |-> NoKey, ok |-> FALSE],
       [op |-> "added", key |-> 4, exp |-> NoKey, ok |-> FALSE],
       [op |-> "hit", key |-> 2, exp |-> NoKey, ok |-> FALSE],
       [op |-> "hit", key |-> 5, exp |-> NoKey, ok |-> FALSE],
       [op |-> "removed", key |-> 3, exp |-> NoKey, ok |-> TRUE],
       [op |-> "removed", key |-> 6, exp |-> NoKey, ok |-> FALSE],
       [op |-> "pop", key |-> NoKey, exp |-> 1, ok |-> FALSE],
       [op |-> "pop", key |-> NoKey, exp |-> 4, ok |-> FALSE],
       [op |-> "pop", key |-> NoKey, exp |-> 2, ok |-> FALSE],
       [op |-> "pop", key |-> NoKey, exp |-> 5, ok |-> FALSE],
       [op |-> "pop", key |-> NoKey, exp |-> NoKey, ok |-> FALSE] >>

\* TestLFUEviction
LfuScript ==
    << [op |-> "added", key |-> 1, exp |-> NoKey, ok |-> FALSE],
       [op |-> "added", key |-> 2, exp |-> NoKey, ok |-> FALSE],
       [op |-> "added", key |-> 3, exp |-> NoKey, ok |-> FALSE],
       [op |-> "hit", key |-> 2, exp |-> NoKey, ok |-> FALSE],
       [op |-> "hit", key |-> 2, exp |-> NoKey, ok |-> FALSE],
       [op |-> "hit", key |-> 4, exp |-> NoKey, ok |-> FALSE],
       [op |-> "removed", key |-> 3, exp |-> NoKey, ok |-> TRUE],
       [op |-> "removed", key |-> 5, exp |-> NoKey, ok |-> FALSE],
       [op |-> "pop", key |-> NoKey, exp |-> 1, ok |-> FALSE],
       [op |-> "pop", key |-> NoKey, exp |-> 4, ok |-> FALSE],
       [op |-> "pop", key |-> NoKey, exp |-> 2, ok |-> FALSE],
       [op |-> "pop", key |-> NoKey, exp |-> NoKey, ok |-> FALSE] >>

SScript == IF strat.kind = "LRU" THEN LruScript ELSE LfuScript

\* The keys of the calls: those of the test, or 1..NumStratKeys
SKeys == IF sMode = "script" THEN 1..6 ELSE 1..NumStratKeys

\* A call can be made: always when the calls are free; on the script, while
\* the calls so far are the script's and some are left.
SCanCall == sMode = "free" \/ (sStep >= 0 /\ sStep < Len(SScript))

\* The script's position after the call op(k)
SAdvance(op, k) ==
    IF sMode = "script" /\ sStep >= 0 /\ sStep < Len(SScript)
       /\ SScript[sStep + 1].op = op /\ SScript[sStep + 1].key = k
    THEN sStep + 1 ELSE -1

NoSExp == [keys |-> {}, ok |-> FALSE]

\* The tracked keys the reference lets Pop return: the least recently used
\* one (LRU), the least hit ones (LFU), none when nothing is tracked.
RefPop ==
    IF DOMAIN gtrack = {} THEN {NoKey}
    ELSE IF strat.kind = "LRU"
    THEN {k \in DOMAIN gtrack : \A j \in DOMAIN gtrack : gtrack[k].last <= gtrack[j].last}
    ELSE {k \in DOMAIN gtrack : \A j \in DOMAIN gtrack : gtrack[k].hits <= gtrack[j].hits}

\* e.Added(k)
SAdded(k) ==
    /\ SCanCall
    /\ sMode = "free" => clock < MaxClock
    /\ strat' = StratAdded(strat, k)
    /\ sRet' = [op |-> "added", key |-> NoKey, ok |-> FALSE]
    /\ sExp' = NoSExp
    /\ sStep' = SAdvance("added", k)
    /\ clock' = clock + 1
    /\ gtrack' = MapSet(gtrack, k, [last |-> clock + 1, hits |-> 0])
    /\ dupAdded' = (dupAdded \/ k \in DOMAIN gtrack)
    /\ UNCHANGED sMode
    /\ UNCHANGED notSU

\* e.Hit(k)
SHit(k) ==
    /\ SCanCall
    /\ sMode = "free" => clock < MaxClock
    /\ strat' = StratHit(strat, k)
    /\ sRet' = [op |-> "hit", key |-> NoKey, ok |-> FALSE]
    /\ sExp' = NoSExp
    /\ sStep' = SAdvance("hit", k)
    /\ clock' = clock + 1
    /\ gtrack' = MapSet(gtrack, k,
                        [last |-> clock + 1,
                         hits |-> IF k \in DOMAIN gtrack THEN gtrack[k].hits + 1 ELSE 1])
    /\ UNCHANGED <<sMode, dupAdded>>
    /\ UNCHANGED notSU

\* e.Removed(k)
SRemoved(k) ==
    /\ SCanCall
    /\ strat' = StratRemoved(strat, k)
    /\ sRet' = [op |-> "removed", key |-> NoKey, ok |-> StratFound(strat, k)]
    /\ sExp' = [keys |-> {}, ok |-> k \in DOMAIN gtrack]
    /\ sStep' = SAdvance("removed", k)
    /\ gtrack' = MapDel(gtrack, k)
    /\ UNCHANGED <<sMode, clock, dupAdded>>
    /\ UNCHANGED notSU

\* e.Pop()
SPop ==
    /\ SCanCall
    /\ strat' = StratPop(strat).strat
    /\ sRet' = [op |-> "pop", key |-> StratPop(strat).key, ok |-> FALSE]
    /\ sExp' = [keys |-> RefPop, ok |-> FALSE]
    /\ sStep' = SAdvance("pop", NoKey)
    /\ gtrack' = MapDel(gtrack, StratPop(strat).key)
    /\ UNCHANGED <<sMode, clock, dupAdded>>
    /\ UNCHANGED notSU

\* The strategy group when no specification of a strategy runs, and at the
\* start of one.
SUStart(mode) ==
    /\ sMode = mode
    /\ sStep = IF mode = "script" THEN 0 ELSE -1
    /\ sRet = [op |-> "none", key |-> NoKey, ok |-> FALSE]
    /\ sExp = NoSExp
    /\ clock = 0
    /\ gtrack = EmptyMap
    /\ dupAdded = FALSE

SUNext ==
    \/ \E k \in SKeys : SAdded(k)
    \/ \E k \in SKeys : SHit(k)
    \/ \E k \in SKeys : SRemoved(k)
    \/ SPop

(***************************************************************************)
(* evictingCache over a memory leaf, called by one caller at a time (alone, *)
(* or through the Locking layer, which holds its mutex around each call).  *)
(***************************************************************************)
\* The scenario: Put(1,10), Put(2,20), Get(1), Remove(2), Put(3,30),
\* Put(4,40), Get(4), Put(5,50), then a Get of 3 or of 1.
EvScript ==
    << {[op |-> "put", key |-> 1, val |-> 10]},
       {[op |-> "put", key |-> 2, val |-> 20]},
       {[op |-> "get", key |-> 1, val |-> Nil]},
       {[op |-> "remove", key |-> 2, val |-> Nil]},
       {[op |-> "put", key |-> 3, val |-> 30]},
       {[op |-> "put", key |-> 4, val |-> 40]},
       {[op |-> "get", key |-> 4, val |-> Nil]},
       {[op |-> "put", key |-> 5, val |-> 50]},
       {[op |-> "get", key |-> 3, val |-> Nil], [op |-> "get", key |-> 1, val |-> Nil]} >>

EvKeys == IF evMode = "script" THEN 1..5 ELSE 1..NumEvKeys

\* The value put with key k
EvVal(k) == 10 * k

EvCanCall == evMode # "script" \/ (evStep >= 0 /\ evStep < Len(EvScript))

EvAdvance(op, k, v) ==
    IF evMode = "script" /\ evStep >= 0 /\ evStep < Len(EvScript)
       /\ [op |-> op, key |-> k, val |-> v] \in EvScript[evStep + 1]
    THEN evStep + 1 ELSE -1

\* The strategy stays within the model's bounds (the scenario is finite).
StratWithin(s) ==
    evMode # "script" => StratSize(s) <= MaxTrack /\ StratMaxCount(s) <= MaxCount

\* memoryStorage.Len
EvLen == Cardinality(DOMAIN evStore)

\* A loop that goes on when the Remove finds nothing.
RECURSIVE EvictLoop_PopOn(_, _)
EvictLoop_PopOn(st, s) ==
    IF Cardinality(DOMAIN st) >= evMaxLen
    THEN LET pp == StratPop(s)
         IN IF pp.key = NoKey
            THEN [store |-> st, strat |-> pp.strat, iters |-> 1, evicted |-> 0]
            ELSE LET r == EvictLoop_PopOn(MapDel(st, pp.key), pp.strat)
                 IN [r EXCEPT !.iters = @ + 1,
                              !.evicted = @ + (IF pp.key \in DOMAIN st THEN 1 ELSE 0)]
    ELSE [store |-> st, strat |-> s, iters |-> 0, evicted |-> 0]

\* The loop of evictingCache.Put: while the leaf holds maxLen entries or
\* more, Pop a key and Remove it from the leaf; stop when Pop has none or
\* the Remove finds nothing. History: iters counts the iterations begun,
\* evicted the entries removed from the leaf.
RECURSIVE EvictLoop(_, _)
EvictLoop(st, s) ==
    IF Cardinality(DOMAIN st) >= evMaxLen
    THEN LET pp == StratPop(s)
         IN IF pp.key = NoKey \/ pp.key \notin DOMAIN st
            THEN [store |-> st, strat |-> pp.strat, iters |-> 1, evicted |-> 0]
            ELSE LET r == EvictLoop(MapDel(st, pp.key), pp.strat)
                 IN [r EXCEPT !.iters = @ + 1, !.evicted = @ + 1]
    ELSE [store |-> st, strat |-> s, iters |-> 0, evicted |-> 0]

\* The errors the inner Put can return
EvPutErrs == IF evMode = "faulty" THEN {NoErr, ErrPut} ELSE {NoErr}

\* evictingCache.Put: the eviction loop, err = c.Cache.Put(key, value),
\* Added(key) if err == nil, return nil. History of the return: inner is
\* the inner Put's error, added whether Added was called, pre the leaf's
\* Len() when Put was called, iters and evicted the loop's counts.
EvPut(k, v) ==
    /\ EvCanCall
    /\ \E err \in EvPutErrs, e \in {EvictLoop(evStore, strat)} :
             /\ evStore' = IF err = NoErr THEN MapSet(e.store, k, v) ELSE e.store
             /\ strat' = IF err = NoErr THEN StratAdded(e.strat, k) ELSE e.strat
             /\ evRet' = [op |-> "put", key |-> k, val |-> v, err |-> NoErr, ok |-> FALSE,
                          inner |-> err, added |-> (err = NoErr), pre |-> EvLen,
                          iters |-> e.iters, evicted |-> e.evicted]
    /\ StratWithin(strat')
    /\ evStep' = EvAdvance("put", k, v)
    /\ UNCHANGED <<evMode, evMaxLen>>
    /\ UNCHANGED notEv

\* evictingCache.Get
EvGet(k) ==
    /\ EvCanCall
    /\ IF k \in DOMAIN evStore
       THEN /\ strat' = StratHit(strat, k)
            /\ evRet' = [op |-> "get", key |-> k, val |-> evStore[k], err |-> NoErr,
                         ok |-> FALSE, inner |-> NoErr, added |-> FALSE, pre |-> 0,
                         iters |-> 0, evicted |-> 0]
       ELSE /\ strat' = strat
            /\ evRet' = [op |-> "get", key |-> k, val |-> Nil, err |-> ErrKeyNotFound,
                         ok |-> FALSE, inner |-> ErrKeyNotFound, added |-> FALSE,
                         pre |-> 0, iters |-> 0, evicted |-> 0]
    /\ StratWithin(strat')
    /\ evStep' = EvAdvance("get", k, Nil)
    /\ UNCHANGED <<evMode, evMaxLen, evStore>>
    /\ UNCHANGED notEv

\* evictingCache.Remove
EvRemove(k) ==
    /\ EvCanCall
    /\ strat' = StratRemoved(strat, k)
    /\ evStore' = MapDel(evStore, k)
    /\ evRet' = [op |-> "remove", key |-> k, val |-> Nil, err |-> NoErr,
                 ok |-> k \in DOMAIN evStore, inner |-> NoErr, added |-> FALSE,
                 pre |-> 0, iters |-> 0, evicted |-> 0]
    /\ evStep' = EvAdvance("remove", k, Nil)
    /\ UNCHANGED <<evMode, evMaxLen>>
    /\ UNCHANGED notEv

\* LRUEviction(n) or LFUEviction(n) over NewMemoryStorage, or over a cache
\* whose Put can fail
EvStart(mode, n) ==
    /\ evMode = mode
    /\ evStep = IF mode = "script" THEN 0 ELSE -1
    /\ evMaxLen = n
    /\ evStore = EmptyMap
    /\ evRet = [op |-> "none", key |-> NoKey, val |-> Nil, err |-> NoErr, ok |-> FALSE,
                inner |-> NoErr, added |-> FALSE, pre |-> 0, iters |-> 0, evicted |-> 0]

EvNext ==
    \/ \E k \in EvKeys : EvPut(k, EvVal(k))
    \/ \E k \in EvKeys : EvGet(k)
    \/ \E k \in EvKeys : EvRemove(k)

(***************************************************************************)
(* expiringCache (src/cache/expiration.go) over a leaf, called by one      *)
(* caller at a time, with a clock the caller advances. The two variants    *)
(* of the layer differ in Flush.                                           *)
(***************************************************************************)
\* TestExpiringCache: Put(5,6), Get(5), 5 s, Get(5), Put(7,8), 10 s, Get(5),
\* Get(7), Flush
XScript ==
    << [op |-> "put", key |-> 5, val |-> 6],
       [op |-> "get", key |-> 5, val |-> Nil],
       [op |-> "advance", key |-> 5, val |-> Nil],
       [op |-> "get", key |-> 5, val |-> Nil],
       [op |-> "put", key |-> 7, val |-> 8],
       [op |-> "advance", key |-> 10, val |-> Nil],
       [op |-> "get", key |-> 5, val |-> Nil],
       [op |-> "get", key |-> 7, val |-> Nil],
       [op |-> "flush", key |-> NoKey, val |-> Nil] >>

\* The keys, the values and the clock's steps of the calls: the test's, or
\* the model's
XKeySet == IF xMode = "script" THEN {5, 7} ELSE XKeys
XValSet == IF xMode = "script" THEN {6, 8} ELSE XVals
XDelays == IF xMode = "script" THEN {5, 10} ELSE {1}

XCanCall == xMode = "free" \/ (xStep >= 0 /\ xStep < Len(XScript))

XAdvanceStep(op, k, v) ==
    IF xMode = "script" /\ xStep >= 0 /\ xStep < Len(XScript)
       /\ XScript[xStep + 1] = [op |-> op, key |-> k, val |-> v]
    THEN xStep + 1 ELSE -1

\* put is history: the last Put of the key a Get asked for, as xPut had it
NoXPut == [at |-> -1, ttl |-> 0, val |-> Nil]
\* inner, ttl and kept are history of a Put: what the (first) inner Put
\* returned, the TTL asked for when it returned nil, whether the Put left the deadline records
\* as they were, the one it set aside
NoXRet == [op |-> "none", key |-> NoKey, val |-> Nil, err |-> NoErr, ok |-> FALSE,
           flushes |-> 0, put |-> NoXPut, inner |-> NoErr, ttl |-> 0, kept |-> TRUE]
NoXPre == [store |-> EmptyMap, dates |-> EmptyMap, now |-> 0]

\* The errors the leaf's Put can return
XPutErrs ==
    IF xInner # "faulty" THEN {NoErr}
    ELSE IF xVariant = "set" THEN {NoErr, ErrPut, ErrCacheFull}
    ELSE {NoErr, ErrPut}

\* The errors the leaf's Flush can return to SetWithTTL
XFlushErrs == IF xInner = "faulty" THEN {NoErr, ErrIO} ELSE {NoErr}

\* time.Time.Before
Before(t, u) == t < u

\* FakeClock.Advance(d)
XAdvance(d) ==
    /\ XCanCall
    /\ xMode = "free" => xNow + d <= MaxNow
    /\ xNow' = xNow + d
    /\ xStep' = XAdvanceStep("advance", d, Nil)
    /\ xRet' = NoXRet
    /\ xPre' = NoXPre
    /\ UNCHANGED <<xVariant, xInner, xMode, xTtl, xStore, xDates, xPut>>
    /\ UNCHANGED notX

\* A Flush that takes the deadlines not after now for expired.
Expired_Inclusive(dates, now) == {k \in DOMAIN dates : dates[k] <= now}

\* The keys whose deadline is before now
Expired(dates, now) == {k \in DOMAIN dates : Before(dates[k], now)}

\* expiringCache.PutWithTTL: the inner Put, and the deadline when it succeeded
XPutWithTTLDo(k, v, ttl, e) ==
    /\ xStore' = IF e = NoErr THEN MapSet(xStore, k, v) ELSE xStore
    /\ xDates' = IF e = NoErr THEN MapSet(xDates, k, xNow + ttl) ELSE xDates
    /\ xPut' = IF e = NoErr THEN MapSet(xPut, k, [at |-> xNow, ttl |-> ttl, val |-> v]) ELSE xPut
    /\ xRet' = [NoXRet EXCEPT !.op = "put", !.key = k, !.val = v, !.err = e,
                               !.inner = e, !.ttl = IF e = NoErr THEN ttl ELSE 0]
    /\ xPre' = NoXPre

\* expiringCache.SetWithTTL (src/unnamed/part_017): the inner Set; unless it
\* returned ErrCacheFull, e.Flush() (e.Remove of the expired keys, then the
\* inner Flush) and, when that succeeded, the inner Set again; the deadline
\* when the last of these returned nil. e1, ef and e2 are what the inner
\* Set, Flush and second Set return.
XSetWithTTLDo(k, v, ttl, e1, ef, e2) ==
    LET flushed == e1 # ErrCacheFull
        again == flushed /\ ef = NoErr
        err == IF ~flushed THEN e1 ELSE IF ef # NoErr THEN ef ELSE e2
        gone == IF flushed THEN Expired(xDates, xNow) ELSE {}
        s1 == IF e1 = NoErr THEN MapSet(xStore, k, v) ELSE xStore
        s2 == [j \in DOMAIN s1 \ gone |-> s1[j]]
        d2 == [j \in DOMAIN xDates \ gone |-> xDates[j]]
        p2 == [j \in DOMAIN xPut \ gone |-> xPut[j]]
    IN /\ xStore' = IF again /\ e2 = NoErr THEN MapSet(s2, k, v) ELSE s2
       /\ xDates' = IF err = NoErr THEN MapSet(d2, k, xNow + ttl) ELSE d2
       /\ xPut' = IF err = NoErr THEN MapSet(p2, k, [at |-> xNow, ttl |-> ttl, val |-> v])
                  ELSE IF e1 = NoErr \/ (again /\ e2 = NoErr) THEN MapDel(p2, k)
                  ELSE p2
       /\ xRet' = [NoXRet EXCEPT !.op = "put", !.key = k, !.val = v, !.err = err,
                                  !.inner = e1, !.ttl = IF e1 = NoErr THEN ttl ELSE 0,
                                  !.kept = (d2 = xDates)]
       /\ xPre' = NoXPre

\* PutWithTTL, or SetWithTTL in the variant that has it
XPutAny(k, v, ttl) ==
    IF xVariant = "set"
    THEN \E e1 \in XPutErrs :
            \E ef \in (IF e1 = ErrCacheFull THEN {NoErr} ELSE XFlushErrs) :
               \E e2 \in (IF e1 = ErrCacheFull \/ ef # NoErr THEN {NoErr}
                          ELSE XPutErrs \ {ErrCacheFull}) :
                  XSetWithTTLDo(k, v, ttl, e1, ef, e2)
    ELSE \E e \in XPutErrs : XPutWithTTLDo(k, v, ttl, e)

\* e.PutWithTTL(k, v, ttl)
XPutWithTTL(k, v, ttl) ==
    /\ XCanCall
    /\ xMode = "free"
    /\ XPutAny(k, v, ttl)
    /\ xStep' = xStep
    /\ UNCHANGED <<xVariant, xInner, xMode, xTtl, xNow>>
    /\ UNCHANGED notX

\* e.Put(k, v): PutWithTTL(k, v, e.ttl)
XPut(k, v) ==
    /\ XCanCall
    /\ XPutAny(k, v, xTtl)
    /\ xStep' = XAdvanceStep("put", k, v)
    /\ UNCHANGED <<xVariant, xInner, xMode, xTtl, xNow>>
    /\ UNCHANGED notX

\* A LoadOrStore that stores the new deadline over the one it finds.
LoadOrStore_Refresh(dates, k, t) == MapSet(dates, k, t)

\* dates.LoadOrStore(k, t) (the map variant: the lookup, and the store when
\* the key has no deadline): the deadlines afterwards
LoadOrStore(dates, k, t) == IF k \in DOMAIN dates THEN dates ELSE MapSet(dates, k, t)

\* e.Get(k): the inner Get, then got
XGet(k) ==
    /\ XCanCall
    /\ LET r == [NoXRet EXCEPT !.op = "get", !.key = k,
                               !.put = IF k \in DOMAIN xPut THEN xPut[k] ELSE NoXPut]
       IN IF k \notin DOMAIN xStore
          THEN /\ xRet' = [r EXCEPT !.err = ErrKeyNotFound]
               /\ UNCHANGED <<xStore, xDates, xPut>>
          ELSE LET d == LoadOrStore(xDates, k, xNow + xTtl)
               IN IF Before(d[k], xNow)
                  THEN /\ xDates' = MapDel(d, k)
                       /\ xStore' = MapDel(xStore, k)
                       /\ xPut' = MapDel(xPut, k)
                       /\ xRet' = [r EXCEPT !.err = ErrKeyNotFound]
                  ELSE /\ xDates' = d
                       /\ xRet' = [r EXCEPT !.val = xStore[k]]
                       /\ UNCHANGED <<xStore, xPut>>
    /\ xPre' = NoXPre
    /\ xStep' = XAdvanceStep("get", k, Nil)
    /\ UNCHANGED <<xVariant, xInner, xMode, xTtl, xNow>>
    /\ UNCHANGED notX

\* e.Remove(k)
XRemove(k) ==
    /\ XCanCall
    /\ xDates' = MapDel(xDates, k)
    /\ xStore' = MapDel(xStore, k)
    /\ xPut' = MapDel(xPut, k)
    /\ xRet' = [NoXRet EXCEPT !.op = "remove", !.key = k, !.ok = (k \in DOMAIN xStore)]
    /\ xPre' = NoXPre
    /\ xStep' = XAdvanceStep("remove", k, Nil)
    /\ UNCHANGED <<xVariant, xInner, xMode, xTtl, xNow>>
    /\ UNCHANGED notX

\* e.Flush(): the expired keys leave the leaf (and, in the map variant, the
\* deadlines: e.Remove; the sync.Map variant calls e.Cache.Remove), then the
\* inner Flush, once
XFlush ==
    /\ XCanCall
    /\ LET gone == Expired(xDates, xNow)
       IN /\ xStore' = [k \in DOMAIN xStore \ gone |-> xStore[k]]
          /\ xDates' = IF xVariant = "syncmap" THEN xDates
                       ELSE [k \in DOMAIN xDates \ gone |-> xDates[k]]
          /\ xPut' = [k \in DOMAIN xPut \ gone |-> xPut[k]]
    /\ xRet' = [NoXRet EXCEPT !.op = "flush", !.flushes = 1]
    /\ xPre' = [store |-> xStore, dates |-> xDates, now |-> xNow]
    /\ xStep' = XAdvanceStep("flush", NoKey, Nil)
    /\ UNCHANGED <<xVariant, xInner, xMode, xTtl, xNow>>
    /\ UNCHANGED notX

\* ExpirationUsingClock(ttl, clock) over a fresh leaf
XStart(variant, inner, mode, ttl) ==
    /\ xVariant = variant
    /\ xInner = inner
    /\ xMode = mode
    /\ xStep = IF mode = "script" THEN 0 ELSE -1
    /\ xTtl = ttl
    /\ xNow = 0
    /\ xStore = EmptyMap
    /\ xDates = EmptyMap
    /\ xRet = NoXRet
    /\ xPut = EmptyMap
    /\ xPre = NoXPre

XNext ==
    \/ \E d \in XDelays : XAdvance(d)
    \/ \E k \in XKeySet, v \in XValSet, t \in 0..MaxTtl : XPutWithTTL(k, v, t)
    \/ \E k \in XKeySet, v \in XValSet : XPut(k, v)
    \/ \E k \in XKeySet : XGet(k)
    \/ \E k \in XKeySet : XRemove(k)
    \/ XFlush

(***************************************************************************)
(* writeThrough (src/cache/expiration_test.go): two tiers and a mutex      *)
(* held over each operation, called by concurrent callers. Each call of a  *)
(* tier is one step.                                                       *)
(***************************************************************************)
\* The errors of a faulty tier
ErrInner == "ErrInner"
ErrOuter == "ErrOuter"
TierErr(t) == IF t = "inner" THEN ErrInner ELSE ErrOuter

\* What a Put or a Flush of tier t can return
TierErrs(t) == IF wTiers = "faulty" THEN {NoErr, TierErr(t)} ELSE {NoErr}

\* tier.Get(k): <<value, err>>
TierGet(m, k) == IF k \in DOMAIN m THEN <<m[k], NoErr>> ELSE <<Nil, ErrKeyNotFound>>

\* What tier.Get(k) returns as a value, Nil on a miss
TierVal(m, k) == TierGet(m, k)[1]

\* The order in which Put writes the tiers: an order that writes outer first
\* (the mutant), and writeThrough.Put's.
PutOrder_OuterFirst == <<"outer", "inner">>
PutOrder == <<"inner", "outer">>

\* c.mu can be taken: a mutex that excludes nobody (the mutant), and c.mu
MuFree_NoMutex == TRUE
MuFree == wMu = 0

\* The outer tier after Get's write-back: a Get that does not write back
\* (the mutant), and c.outer.Put(key, value)
WriteBack_Skip(m, k, v) == m
WriteBack(m, k, v) == MapSet(m, k, v)

\* path is history: where a Get found its value; errs and puts are history:
\* what the Put of each tier returned and how many times it was called.
NoWLoc == [val |-> Nil, err |-> NoErr, ok |-> FALSE, path |-> "none",
           errs |-> [inner |-> NoErr, outer |-> NoErr],
           puts |-> [inner |-> 0, outer |-> 0]]
NoWArg == [op |-> "none", key |-> NoKey, val |-> Nil]

\* seenOuter, seenInner are history: what outer.Get(key) and inner.Get(key)
\* return as the operation returns.
NoWRet == [op |-> "none", key |-> NoKey, val |-> Nil, err |-> NoErr, ok |-> FALSE,
           path |-> "none", errs |-> NoWLoc.errs, puts |-> NoWLoc.puts,
           seenOuter |-> Nil, seenInner |-> Nil]

\* c.mu.Lock() at the start of the operation a
WTLock(p, a, where) ==
    /\ wPc[p] = "idle"
    /\ wOps < MaxWOps
    /\ MuFree
    /\ wMu' = p
    /\ wPc' = [wPc EXCEPT ![p] = where]
    /\ wArg' = [wArg EXCEPT ![p] = a]
    /\ wLoc' = [wLoc EXCEPT ![p] = NoWLoc]
    /\ wRet' = [wRet EXCEPT ![p] = NoWRet]
    /\ wOps' = wOps + 1
    /\ UNCHANGED <<wTiers, wOuter, wInner>>
    /\ UNCHANGED notW

\* A Put, a Get, a Remove, a Flush or a Len starts
WTCall(p) ==
    \/ \E k \in WKeys, v \in WVals : WTLock(p, [op |-> "put", key |-> k, val |-> v], "put1")
    \/ \E k \in WKeys : WTLock(p, [op |-> "get", key |-> k, val |-> Nil], "getOuter")
    \/ \E k \in WKeys : WTLock(p, [op |-> "remove", key |-> k, val |-> Nil], "rmInner")
    \/ WTLock(p, [op |-> "flush", key |-> NoKey, val |-> Nil], "flushInner")
    \/ WTLock(p, [op |-> "len", key |-> NoKey, val |-> Nil], "len")

\* The Put of tier t by caller p, returning e
WTTierPut(p, t, e) ==
    /\ wOuter' = IF t = "outer" /\ e = NoErr
                 THEN MapSet(wOuter, wArg[p].key, wArg[p].val) ELSE wOuter
    /\ wInner' = IF t = "inner" /\ e = NoErr
                 THEN MapSet(wInner, wArg[p].key, wArg[p].val) ELSE wInner
    /\ wLoc' = [wLoc EXCEPT ![p].err = e, ![p].errs[t] = e, ![p].puts[t] = @ + 1]

\* writeThrough.Put: the first tier's Put; the second follows when it succeeded
WTPutFirst(p) ==
    /\ wPc[p] = "put1"
    /\ \E e \in TierErrs(PutOrder[1]) :
          /\ WTTierPut(p, PutOrder[1], e)
          /\ wPc' = [wPc EXCEPT ![p] = IF e = NoErr THEN "put2" ELSE "unlock"]
    /\ UNCHANGED <<wTiers, wMu, wArg, wRet, wOps>>
    /\ UNCHANGED notW

\* writeThrough.Put: the second tier's Put
WTPutSecond(p) ==
    /\ wPc[p] = "put2"
    /\ \E e \in TierErrs(PutOrder[2]) : WTTierPut(p, PutOrder[2], e)
    /\ wPc' = [wPc EXCEPT ![p] = "unlock"]
    /\ UNCHANGED <<wTiers, wMu, wArg, wRet, wOps>>
    /\ UNCHANGED notW

\* writeThrough.Get: value, err = c.outer.Get(key); return unless not found
WTGetOuter(p) ==
    /\ wPc[p] = "getOuter"
    /\ LET g == TierGet(wOuter, wArg[p].key)
       IN IF g[2] # ErrKeyNotFound
          THEN /\ wLoc' = [wLoc EXCEPT ![p].val = g[1], ![p].err = g[2],
                                       ![p].path = "outer"]
               /\ wPc' = [wPc EXCEPT ![p] = "unlock"]
          ELSE /\ wLoc' = [wLoc EXCEPT ![p].val = g[1], ![p].err = g[2]]
               /\ wPc' = [wPc EXCEPT ![p] = "getInner"]
    /\ UNCHANGED <<wTiers, wOuter, wInner, wMu, wArg, wRet, wOps>>
    /\ UNCHANGED notW

\* writeThrough.Get: value, err = c.inner.Get(key)
WTGetInner(p) ==
    /\ wPc[p] = "getInner"
    /\ LET g == TierGet(wInner, wArg[p].key)
       IN /\ wLoc' = [wLoc EXCEPT ![p].val = g[1], ![p].err = g[2],
                                  ![p].path = IF g[2] = NoErr THEN "inner" ELSE "miss"]
          /\ wPc' = [wPc EXCEPT ![p] = IF g[2] = NoErr THEN "getBack" ELSE "unlock"]
    /\ UNCHANGED <<wTiers, wOuter, wInner, wMu, wArg, wRet, wOps>>
    /\ UNCHANGED notW

\* writeThrough.Get: err = c.outer.Put(key, value)
WTGetBack(p) ==
    /\ wPc[p] = "getBack"
    /\ \E e \in TierErrs("outer") :
          /\ wOuter' = IF e = NoErr THEN WriteBack(wOuter, wArg[p].key, wLoc[p].val)
                       ELSE wOuter
          /\ wLoc' = [wLoc EXCEPT ![p].err = e, ![p].errs.outer = e,
                                  ![p].puts.outer = @ + 1]
    /\ wPc' = [wPc EXCEPT ![p] = "unlock"]
    /\ UNCHANGED <<wTiers, wInner, wMu, wArg, wRet, wOps>>
    /\ UNCHANGED notW

\* writeThrough.Remove: removed = c.inner.Remove(key)
WTRemoveInner(p) ==
    /\ wPc[p] = "rmInner"
    /\ wInner' = MapDel(wInner, wArg[p].key)
    /\ wLoc' = [wLoc EXCEPT ![p].ok = (wArg[p].key \in DOMAIN wInner)]
    /\ wPc' = [wPc EXCEPT ![p] = "rmOuter"]
    /\ UNCHANGED <<wTiers, wOuter, wMu, wArg, wRet, wOps>>
    /\ UNCHANGED notW

\* writeThrough.Remove: return c.outer.Remove(key) || removed
WTRemoveOuter(p) ==
    /\ wPc[p] = "rmOuter"
    /\ wOuter' = MapDel(wOuter, wArg[p].key)
    /\ wLoc' = [wLoc EXCEPT ![p].ok = (wArg[p].key \in DOMAIN wOuter \/ wLoc[p].ok)]
    /\ wPc' = [wPc EXCEPT ![p] = "unlock"]
    /\ UNCHANGED <<wTiers, wInner, wMu, wArg, wRet, wOps>>
    /\ UNCHANGED notW

\* writeThrough.Flush: err = c.inner.Flush(); the outer Flush follows when
\* it succeeded
WTFlushInner(p) ==
    /\ wPc[p] = "flushInner"
    /\ \E e \in TierErrs("inner") :
          /\ wLoc' = [wLoc EXCEPT ![p].err = e]
          /\ wPc' = [wPc EXCEPT ![p] = IF e = NoErr THEN "flushOuter" ELSE "unlock"]
    /\ UNCHANGED <<wTiers, wOuter, wInner, wMu, wArg, wRet, wOps>>
    /\ UNCHANGED notW

\* writeThrough.Flush: err = c.outer.Flush()
WTFlushOuter(p) ==
    /\ wPc[p] = "flushOuter"
    /\ \E e \in TierErrs("outer") : wLoc' = [wLoc EXCEPT ![p].err = e]
    /\ wPc' = [wPc EXCEPT ![p] = "unlock"]
    /\ UNCHANGED <<wTiers, wOuter, wInner, wMu, wArg, wRet, wOps>>
    /\ UNCHANGED notW

\* writeThrough.Len: return c.inner.Len()
WTLen(p) ==
    /\ wPc[p] = "len"
    /\ wLoc' = [wLoc EXCEPT ![p].val = Cardinality(DOMAIN wInner)]
    /\ wPc' = [wPc EXCEPT ![p] = "unlock"]
    /\ UNCHANGED <<wTiers, wOuter, wInner, wMu, wArg, wRet, wOps>>
    /\ UNCHANGED notW

\* The deferred c.mu.Unlock() and the return
WTUnlock(p) ==
    /\ wPc[p] = "unlock"
    /\ wMu' = 0
    /\ wRet' = [wRet EXCEPT ![p] =
                  [op |-> wArg[p].op, key |-> wArg[p].key,
                   val |-> IF wArg[p].op = "put" THEN wArg[p].val ELSE wLoc[p].val,
                   err |-> wLoc[p].err, ok |-> wLoc[p].ok, path |-> wLoc[p].path,
                   errs |-> wLoc[p].errs, puts |-> wLoc[p].puts,
                   seenOuter |-> TierVal(wOuter, wArg[p].key),
                   seenInner |-> TierVal(wInner, wArg[p].key)]]
    /\ wPc' = [wPc EXCEPT ![p] = "idle"]
    /\ wArg' = [wArg EXCEPT ![p] = NoWArg]
    /\ wLoc' = [wLoc EXCEPT ![p] = NoWLoc]
    /\ UNCHANGED <<wTiers, wOuter, wInner, wOps>>
    /\ UNCHANGED notW

\* WriteThrough(outer) over inner, both fresh
WTStart(tiers) ==
    /\ wTiers = tiers
    /\ wOuter = EmptyMap
    /\ wInner = EmptyMap
    /\ wMu = 0
    /\ wPc = [p \in Procs |-> "idle"]
    /\ wArg = [p \in Procs |-> NoWArg]
    /\ wLoc = [p \in Procs |-> NoWLoc]
    /\ wRet = [p \in Procs |-> NoWRet]
    /\ wOps = 0

WTNext ==
    \E p \in Procs :
        \/ WTCall(p)
        \/ WTPutFirst(p)
        \/ WTPutSecond(p)
        \/ WTGetOuter(p)
        \/ WTGetInner(p)
        \/ WTGetBack(p)
        \/ WTRemoveInner(p)
        \/ WTRemoveOuter(p)
        \/ WTFlushInner(p)
        \/ WTFlushOuter(p)
        \/ WTLen(p)
        \/ WTUnlock(p)

(***************************************************************************)
(* errorLogger, emitter (src/unnamed/part_013) and validator               *)
(* (src/cache/expiration_test.go): layers that pass each call to the inner *)
(* cache and log, publish or check what it returns. One caller; the        *)
(* emitter's channel has a reader that may or may not receive (a reader    *)
(* parked on the channel counts as room for one event).                    *)
(***************************************************************************)
LayerKinds == {"logErrors", "emitter", "validator"}
InnerKinds == {"void", "mem", "faulty"}

\* ErrIO, an error of the inner cache other than ErrKeyNotFound, is also the
\* error of the validator's function
ErrInvalid == "ErrInvalid"

\* What a call returns: the value and error of Get, the error of Put and
\* Flush, the flag of Remove, the count of Len
Res(v, e, ok, n) == [val |-> v, err |-> e, ok |-> ok, n |-> n]
NoRes == Res(Nil, NoErr, FALSE, 0)

\* The errors the inner Put, Get and Flush can return beside their own
InnerFaults == IF lyInner = "faulty" THEN {NoErr, ErrIO} ELSE {NoErr}

\* inner.Put(k, v) returning e: the entries afterwards
InnerPut(k, v, e) ==
    IF lyInner = "void" \/ e # NoErr THEN lyStore ELSE MapSet(lyStore, k, v)

\* inner.Get(k) failing with e, or returning the entry
InnerGet(k, e) ==
    IF e # NoErr THEN Res(Nil, e, FALSE, 0)
    ELSE IF k \in DOMAIN lyStore THEN Res(lyStore[k], NoErr, FALSE, 0)
    ELSE Res(Nil, ErrKeyNotFound, FALSE, 0)

(***************************************************************************)
(* errorLogger                                                             *)
(***************************************************************************)
\* errorLogger.Put, Get, Flush (Remove and Len are the inner cache's): what
\* the layer returns when the inner cache returned r
ErrorLoggerReturn(op, r) ==
    IF op \in {"put", "flush"} THEN [r EXCEPT !.err = NoErr] ELSE r

\* The errors the call passes to c.log
ErrorLoggerLogs(op, r) ==
    IF op \in {"put", "flush"} /\ r.err # NoErr THEN {r.err}
    ELSE IF op = "get" /\ r.err # NoErr /\ r.err # ErrKeyNotFound THEN {r.err}
    ELSE {}

(***************************************************************************)
(* emitter                                                                 *)
(***************************************************************************)
\* Event.Value holds a value, a flag or a count
EvNil == [kind |-> "nil", n |-> 0]
EvValue(v) == IF v = Nil THEN EvNil ELSE [kind |-> "value", n |-> v]
EvBool(b) == [kind |-> "bool", n |-> IF b THEN 1 ELSE 0]
EvInt(n) == [kind |-> "int", n |-> n]

\* An emitter that publishes the key alone.
EventOf_KeyOnly(op, k, v, r, seq) ==
    [type |-> op,
     key |-> IF op \in {"put", "get", "remove"} THEN k ELSE NoKey,
     value |-> EvNil, err |-> NoErr, seq |-> seq]

\* The Event each operation of the emitter builds; seq is history, the
\* number of the operation.
EventOf(op, k, v, r, seq) ==
    [type |-> op,
     key |-> IF op \in {"put", "get", "remove"} THEN k ELSE NoKey,
     value |-> IF op = "put" THEN EvValue(v)
               ELSE IF op = "get" THEN EvValue(r.val)
               ELSE IF op = "remove" THEN EvBool(r.ok)
               ELSE IF op = "len" THEN EvInt(r.n)
               ELSE EvNil,
     err |-> IF op \in {"put", "get", "flush"} THEN r.err ELSE NoErr,
     seq |-> seq]

\* An emit that sends whether or not the channel has room.
Emit_Unbounded(ch, ev) == Append(ch, ev)

\* emitter.emit: select { case e.ch <- ev: default: }
Emit(ch, ev) == IF Len(ch) < lyCap THEN Append(ch, ev) ELSE ch

(***************************************************************************)
(* validator                                                               *)
(***************************************************************************)
\* What c.f(key, value) returns: <<ok, err>>
Verdicts == {<<TRUE, NoErr>>, <<FALSE, NoErr>>, <<FALSE, ErrInvalid>>, <<TRUE, ErrInvalid>>}

\* A validator that leaves the entry it rejects in the inner cache.
ValidatorGet_KeepEntry(r, f) ==
    LET err == IF f[2] = NoErr /\ ~f[1] THEN ErrKeyNotFound ELSE f[2]
    IN IF r.err # NoErr THEN [res |-> r, remove |-> FALSE]
       ELSE IF err # NoErr THEN [res |-> Res(Nil, err, FALSE, 0), remove |-> FALSE]
       ELSE [res |-> r, remove |-> FALSE]

\* validator.Get when the inner Get returned r and c.f returns f: what the
\* layer returns, and whether it calls c.Cache.Remove(key)
ValidatorGet(r, f) ==
    LET err == IF f[2] = NoErr /\ ~f[1] THEN ErrKeyNotFound ELSE f[2]
    IN IF r.err # NoErr THEN [res |-> r, remove |-> FALSE]
       ELSE IF err # NoErr THEN [res |-> Res(Nil, err, FALSE, 0), remove |-> TRUE]
       ELSE [res |-> r, remove |-> FALSE]

(***************************************************************************)
(* loader (src/cache/expiration_test.go, src/cache/cache.go)               *)
(***************************************************************************)
ErrLoad == "ErrLoad"

\* What l.f(key) returns: <<value, err>>
Loads == {<<v, NoErr>> : v \in LVals} \cup {<<Nil, ErrLoad>>}

\* A loader that calls its function whenever the inner Get fails.
LoaderGet_OnAnyError(r, f, p) ==
    IF r.err = NoErr THEN [res |-> r, called |-> FALSE, put |-> FALSE]
    ELSE IF f[2] # NoErr
    THEN [res |-> Res(f[1], f[2], FALSE, 0), called |-> TRUE, put |-> FALSE]
    ELSE [res |-> Res(f[1], p, FALSE, 0), called |-> TRUE, put |-> TRUE]

\* loader.Get when the inner Get returned r, l.f returns f and the inner Put
\* returns p: what the layer returns, whether it calls l.f, and whether it
\* calls l.Cache.Put(key, value)
LoaderGet(r, f, p) ==
    IF r.err # ErrKeyNotFound THEN [res |-> r, called |-> FALSE, put |-> FALSE]
    ELSE IF f[2] # NoErr
    THEN [res |-> Res(f[1], f[2], FALSE, 0), called |-> TRUE, put |-> FALSE]
    ELSE [res |-> Res(f[1], p, FALSE, 0), called |-> TRUE, put |-> TRUE]

(***************************************************************************)
(* The calls through the layer                                             *)
(***************************************************************************)
\* History of the loader's Get: whether l.f was called and what it returned,
\* whether the write-back Put was called and what it returned
NoLoad == [called |-> FALSE, f |-> <<Nil, NoErr>>, put |-> FALSE, p |-> NoErr]

NoLyRet == [op |-> "none", key |-> NoKey, val |-> Nil, inner |-> NoRes, out |-> NoRes,
            f |-> <<TRUE, NoErr>>, loader |-> NoLoad]
NoLyPre == [store |-> EmptyMap, ch |-> <<>>]

\* What the layer returns for a call other than the validator's Get
LayerReturn(op, r) == IF lyKind = "logErrors" THEN ErrorLoggerReturn(op, r) ELSE r

\* The layer's part of a call other than the validator's Get: the inner
\* cache returned r
LayerDone(op, k, v, r) ==
    /\ lyOps < MaxLOps
    /\ lyOps' = lyOps + 1
    /\ lyRet' = [NoLyRet EXCEPT !.op = op, !.key = k, !.val = v, !.inner = r,
                                !.out = LayerReturn(op, r)]
    /\ lyLog' = IF lyKind = "logErrors" THEN ErrorLoggerLogs(op, r) ELSE {}
    /\ lyCh' = IF lyKind = "emitter"
               THEN Emit(lyCh, EventOf(op, k, v, r, lyOps + 1)) ELSE lyCh
    /\ lyPre' = [store |-> lyStore, ch |-> lyCh]
    /\ UNCHANGED <<lyKind, lyInner, lyCap>>
    /\ UNCHANGED notLy

\* c.Put(k, v)
LPut(k, v) ==
    \E e \in InnerFaults :
        /\ lyStore' = InnerPut(k, v, e)
        /\ LayerDone("put", k, v, Res(Nil, e, FALSE, 0))

\* c.Get(k); the validator calls its function on a hit and removes the
\* entry it rejects; the loader calls its function on a miss and writes the
\* value back
LGet(k) ==
    \E e \in InnerFaults :
        LET r == InnerGet(k, e)
        IN IF lyKind = "validator"
           THEN \E f \in Verdicts :
                   /\ r.err # NoErr => f = <<TRUE, NoErr>>
                   /\ lyOps < MaxLOps
                   /\ lyOps' = lyOps + 1
                   /\ lyStore' = IF ValidatorGet(r, f).remove THEN MapDel(lyStore, k)
                                 ELSE lyStore
                   /\ lyRet' = [NoLyRet EXCEPT !.op = "get", !.key = k, !.inner = r,
                                               !.out = ValidatorGet(r, f).res, !.f = f]
                   /\ lyLog' = {}
                   /\ lyPre' = [store |-> lyStore, ch |-> lyCh]
                   /\ UNCHANGED <<lyKind, lyInner, lyCap, lyCh>>
                   /\ UNCHANGED notLy
           ELSE IF lyKind = "loader"
           THEN \E f \in Loads, p \in InnerFaults :
                   LET g == LoaderGet(r, f, p)
                   IN /\ ~g.called => f = <<Nil, ErrLoad>>
                      /\ ~g.put => p = NoErr
                      /\ lyOps < MaxLOps
                      /\ lyOps' = lyOps + 1
                      /\ lyStore' = IF g.put THEN InnerPut(k, f[1], p) ELSE lyStore
                      /\ lyRet' = [NoLyRet EXCEPT
                                     !.op = "get", !.key = k, !.inner = r, !.out = g.res,
                                     !.loader = [called |-> g.called,
                                                 f |-> IF g.called THEN f ELSE NoLoad.f,
                                                 put |-> g.put, p |-> p]]
                      /\ lyLog' = {}
                      /\ lyPre' = [store |-> lyStore, ch |-> lyCh]
                      /\ UNCHANGED <<lyKind, lyInner, lyCap, lyCh>>
                      /\ UNCHANGED notLy
           ELSE /\ lyStore' = lyStore
                /\ LayerDone("get", k, Nil, r)

\* c.Remove(k)
LRemove(k) ==
    /\ lyStore' = MapDel(lyStore, k)
    /\ LayerDone("remove", k, Nil, Res(Nil, NoErr, k \in DOMAIN lyStore, 0))

\* c.Flush()
LFlush ==
    \E e \in InnerFaults :
        /\ lyStore' = lyStore
        /\ LayerDone("flush", NoKey, Nil, Res(Nil, e, FALSE, 0))

\* c.Len()
LLen ==
    /\ lyStore' = lyStore
    /\ LayerDone("len", NoKey, Nil, Res(Nil, NoErr, FALSE, Cardinality(DOMAIN lyStore)))

\* The channel's reader receives an event: <-ch
LRecv ==
    /\ lyKind = "emitter"
    /\ lyCh # <<>>
    /\ lyCh' = Tail(lyCh)
    /\ lyRet' = [NoLyRet EXCEPT !.op = "recv"]
    /\ lyLog' = {}
    /\ lyPre' = NoLyPre
    /\ UNCHANGED <<lyKind, lyInner, lyCap, lyStore, lyOps>>
    /\ UNCHANGED notLy

\* LogErrors(f), Emitter(ch) or Validate(f) over a fresh inner cache
LyStart(kind, inner, cap) ==
    /\ lyKind = kind
    /\ lyInner = inner
    /\ lyCap = cap
    /\ lyStore = EmptyMap
    /\ lyCh = <<>>
    /\ lyRet = NoLyRet
    /\ lyLog = {}
    /\ lyPre = NoLyPre
    /\ lyOps = 0

LyNext ==
    \/ \E k \in LKeys, v \in LVals : LPut(k, v)
    \/ \E k \in LKeys : LGet(k)
    \/ \E k \in LKeys : LRemove(k)
    \/ LFlush
    \/ LLen
    \/ LRecv

(***************************************************************************)
(* locking (src/cache/eviction_test.go): every operation is Lock, defer    *)
(* Unlock, the inner operation. The inner cache is the memory leaf; an     *)
(* inner operation begins when the caller has the lock and ends in a step  *)
(* of its own.                                                             *)
(***************************************************************************)
\* A Lock that never waits.
LkFree_NoMutex == TRUE

\* l.Lock() can return: the mutex is free
LkFree == lkMu = 0

NoLkArg == [op |-> "none", key |-> NoKey, val |-> Nil]

\* A caller calls an operation of the layer and arrives at l.Lock()
LkCall(p, a) ==
    /\ lkPc[p] = "idle"
    /\ lkOps < MaxKOps
    /\ lkOps' = lkOps + 1
    /\ lkPc' = [lkPc EXCEPT ![p] = "lock"]
    /\ lkArg' = [lkArg EXCEPT ![p] = a]
    /\ lkRet' = [lkRet EXCEPT ![p] = NoRes]
    /\ UNCHANGED <<lkMu, lkStore>>
    /\ UNCHANGED notLk

\* l.Lock() returns; the caller enters the inner operation
LkLock(p) ==
    /\ lkPc[p] = "lock"
    /\ LkFree
    /\ lkMu' = p
    /\ lkPc' = [lkPc EXCEPT ![p] = "inner"]
    /\ UNCHANGED <<lkArg, lkStore, lkRet, lkOps>>
    /\ UNCHANGED notLk

\* l.Cache.Put, Get, Remove, Flush or Len of the memory leaf returns
LkInner(p) ==
    /\ lkPc[p] = "inner"
    /\ LET a == lkArg[p]
           found == a.key \in DOMAIN lkStore
       IN /\ lkStore' = IF a.op = "put" THEN MapSet(lkStore, a.key, a.val)
                        ELSE IF a.op = "remove" THEN MapDel(lkStore, a.key)
                        ELSE lkStore
          /\ lkRet' = [lkRet EXCEPT ![p] =
                         IF a.op = "get"
                         THEN IF found THEN Res(lkStore[a.key], NoErr, FALSE, 0)
                              ELSE Res(Nil, ErrKeyNotFound, FALSE, 0)
                         ELSE IF a.op = "remove" THEN Res(Nil, NoErr, found, 0)
                         ELSE IF a.op = "len"
                         THEN Res(Nil, NoErr, FALSE, Cardinality(DOMAIN lkStore))
                         ELSE NoRes]
    /\ lkPc' = [lkPc EXCEPT ![p] = "unlock"]
    /\ UNCHANGED <<lkMu, lkArg, lkOps>>
    /\ UNCHANGED notLk

\* The deferred l.Unlock(); the operation returns
LkUnlock(p) ==
    /\ lkPc[p] = "unlock"
    /\ lkMu' = 0
    /\ lkPc' = [lkPc EXCEPT ![p] = "idle"]
    /\ lkArg' = [lkArg EXCEPT ![p] = NoLkArg]
    /\ UNCHANGED <<lkStore, lkRet, lkOps>>
    /\ UNCHANGED notLk

\* Locking(NewMemoryStorage())
LkStart ==
    /\ lkMu = 0
    /\ lkPc = [p \in Procs |-> "idle"]
    /\ lkArg = [p \in Procs |-> NoLkArg]
    /\ lkStore = EmptyMap
    /\ lkRet = [p \in Procs |-> NoRes]
    /\ lkOps = 0

LkNext ==
    \/ \E p \in Procs, op \in {"put", "get", "remove", "flush", "len"}, k \in WKeys,
          v \in WVals :
          /\ op \in {"flush", "len"} => k = 1 /\ v = 1
          /\ op \in {"get", "remove"} => v = 1
          /\ LkCall(p, [op |-> op,
                        key |-> IF op \in {"flush", "len"} THEN NoKey ELSE k,
                        val |-> IF op = "put" THEN v ELSE Nil])
    \/ \E p \in Procs : LkLock(p)
    \/ \E p \in Procs : LkInner(p)
    \/ \E p \in Procs : LkUnlock(p)

(***************************************************************************)
(* A cache built by NewVoidStorage(opts...), NewMemoryStorage(opts...) or  *)
(* over a boltStorage: options.applyTo (src/cache/expiration_test.go), the *)
(* layers serializingCache (src/unnamed/part_015) with the test's          *)
(* serializer (src/cache/serializer_test.go), emitter (part_013) and       *)
(* loader (expiration_test.go) with the test's function k -> k+10, and the *)
(* leaves. Keys and values are Go interface{} values: an int, a []byte, a  *)
(* bool or nil. A panic (a failed type assertion, an unhashable map key)   *)
(* unwinds the whole call; the caller issues no call after it.             *)
(***************************************************************************)
IntV(n) == [t |-> "int", n |-> n, b |-> <<>>]
BytesV(b) == [t |-> "bytes", n |-> 0, b |-> b]
BoolV(x) == [t |-> "bool", n |-> IF x THEN 1 ELSE 0, b |-> <<>>]
NilV == [t |-> "nil", n |-> 0, b |-> <<>>]

ErrPanic == "panic"
ErrSyntax == "ErrSyntax"

\* A conversion that keeps the last digit only.
Itoa_LastDigit(n) == <<48 + (n % 10)>>

\* strconv.Itoa: the bytes of the decimal digits, "-" first when negative
RECURSIVE Itoa(_)
Itoa(n) ==
    IF n < 0 THEN <<45>> \o Itoa(0 - n)
    ELSE IF n < 10 THEN <<48 + n>>
    ELSE Itoa(n \div 10) \o <<48 + (n % 10)>>

\* strconv.Atoi: <<number, error>>
RECURSIVE Atoi(_)
Atoi(b) ==
    IF b = <<>> THEN <<0, ErrSyntax>>
    ELSE IF b[1] = 45
    THEN IF Atoi(Tail(b))[2] = NoErr /\ Tail(b)[1] # 45
         THEN <<0 - Atoi(Tail(b))[1], NoErr>> ELSE <<0, ErrSyntax>>
    ELSE IF \E i \in 1..Len(b) : b[i] \notin 48..57 THEN <<0, ErrSyntax>>
    ELSE IF Len(b) = 1 THEN <<b[1] - 48, NoErr>>
    ELSE <<10 * Atoi(SubSeq(b, 1, Len(b) - 1))[1] + (b[Len(b)] - 48), NoErr>>

\* A loader function that returns its key.
LoaderF_Identity(k) == k.n

\* The test's LoaderFunc: k.(int) + 10
LoaderF(k) == k.n + 10

\* A Remove that always reports an entry.
MemRemoved_Always(items, k) == TRUE

\* memoryStorage.Remove: _, removed = s.items[key]
MemRemoved(items, k) == k \in DOMAIN items

\* What a layer or a leaf hands back: the returned value, error, flag and
\* count, the leaf's state, and the history of the call: the layers entered,
\* the calls the leaf received, the events published, the loads made.
Out(val, err, ok, n, st, trace, recv, events, loads) ==
    [val |-> val, err |-> err, ok |-> ok, n |-> n, st |-> st, trace |-> trace,
     recv |-> recv, events |-> events, loads |-> loads]

\* The leaf: voidStorage, memoryStorage (cache.go) or boltStorage (part_008)
LeafDo(leaf, op, k, v, st) ==
    LET rc(e) == <<[op |-> op, key |-> k, val |-> v, err |-> e]>>
        out(val, e, ok, n, st2) == Out(val, e, ok, n, st2, <<leaf>>, rc(e), <<>>, 0)
        has == k \in DOMAIN st.items
    IN IF leaf = "void"
       THEN IF op = "get" THEN out(NilV, ErrKeyNotFound, FALSE, 0, st)
            ELSE out(NilV, NoErr, FALSE, 0, st)
       ELSE IF leaf = "mem"
       THEN IF op \in {"put", "get", "remove"} /\ k.t = "bytes"
            THEN out(NilV, ErrPanic, FALSE, 0, st)
            ELSE IF op = "put"
            THEN out(NilV, NoErr, FALSE, 0, [st EXCEPT !.items = MapSet(@, k, v)])
            ELSE IF op = "get"
            THEN IF has THEN out(st.items[k], NoErr, FALSE, 0, st)
                 ELSE out(NilV, ErrKeyNotFound, FALSE, 0, st)
            ELSE IF op = "remove"
            THEN out(NilV, NoErr, MemRemoved(st.items, k), 0,
                     [st EXCEPT !.items = MapDel(@, k)])
            ELSE IF op = "len"
            THEN out(NilV, NoErr, FALSE, Cardinality(DOMAIN st.items), st)
            ELSE out(NilV, NoErr, FALSE, 0, st)
       ELSE IF (op = "put" \/ (op \in {"get", "remove"} /\ st.bucket)) /\ k.t # "bytes"
            THEN out(NilV, ErrPanic, FALSE, 0, st)
            ELSE IF op = "put"
            THEN IF v.t # "bytes" THEN out(NilV, ErrPanic, FALSE, 0, st)
                 ELSE out(NilV, NoErr, FALSE, 0,
                          [items |-> MapSet(st.items, k, v), bucket |-> TRUE])
            ELSE IF op = "get"
            THEN IF ~st.bucket THEN out(NilV, NoErr, FALSE, 0, st)
                 ELSE IF has THEN out(st.items[k], NoErr, FALSE, 0, st)
                 ELSE out(BytesV(<<>>), NoErr, FALSE, 0, st)
            ELSE IF op = "remove"
            THEN out(NilV, NoErr, st.bucket /\ ~has, 0, st)
            ELSE out(NilV, NoErr, FALSE, 0, st)

\* The Event the emitter publishes for the call
StEvent(op, k, v, r) ==
    [type |-> op,
     key |-> IF op \in {"put", "get", "remove"} THEN k ELSE NilV,
     value |-> IF op = "put" THEN v
               ELSE IF op = "get" THEN r.val
               ELSE IF op = "remove" THEN BoolV(r.ok)
               ELSE IF op = "len" THEN IntV(r.n)
               ELSE NilV,
     err |-> IF op \in {"put", "get", "flush"} THEN r.err ELSE NoErr]

\* A call on layer i of the stack: the layer delegates to layer i+1; a layer
\* that does not define the method passes the call on as it is.
RECURSIVE Handle(_, _, _, _, _, _)
Handle(stack, i, op, k, v, st) ==
    LET layer == stack[i]
        in(o, kk, vv, st2) == Handle(stack, i + 1, o, kk, vv, st2)
        enter(r) == [r EXCEPT !.trace = <<layer>> \o @]
        panic == Out(NilV, ErrPanic, FALSE, 0, st, <<layer>>, <<>>, <<>>, 0)
    IN IF i = Len(stack) THEN LeafDo(layer, op, k, v, st)
       ELSE IF layer = "emitter"
       THEN LET r == in(op, k, v, st)
            IN IF r.err = ErrPanic THEN enter(r)
               ELSE [enter(r) EXCEPT !.events = @ \o <<StEvent(op, k, v, r)>>]
       ELSE IF layer = "serialization" /\ op \in {"put", "get", "remove"}
       THEN IF k.t # "int" \/ (op = "put" /\ v.t # "int") THEN panic
            ELSE LET skey == BytesV(Itoa(k.n))
                 IN IF op = "put" THEN enter(in("put", skey, BytesV(Itoa(v.n)), st))
                    ELSE IF op = "remove" THEN enter(in("remove", skey, NilV, st))
                    ELSE LET r == in("get", skey, NilV, st)
                         IN IF r.err = ErrPanic THEN enter(r)
                            ELSE IF r.err # NoErr THEN [enter(r) EXCEPT !.val = NilV]
                            ELSE IF r.val.t # "bytes"
                            THEN [enter(r) EXCEPT !.val = NilV, !.err = ErrPanic]
                            ELSE [enter(r) EXCEPT !.val = IntV(Atoi(r.val.b)[1]),
                                                  !.err = Atoi(r.val.b)[2]]
       ELSE IF layer = "loader" /\ op = "get"
       THEN LET r == in("get", k, NilV, st)
            IN IF r.err # ErrKeyNotFound THEN enter(r)
               ELSE IF k.t # "int"
               THEN [enter(r) EXCEPT !.val = NilV, !.err = ErrPanic]
               ELSE LET w == in("put", k, IntV(LoaderF(k)), r.st)
                    IN Out(IF w.err = ErrPanic THEN NilV ELSE IntV(LoaderF(k)),
                           w.err, FALSE, 0, w.st, <<layer>> \o r.trace \o w.trace,
                           r.recv \o w.recv, r.events \o w.events, 1)
       ELSE enter(in(op, k, v, st))

\* An applyTo that wraps from the first option to the last.
RECURSIVE ApplyTo_Forward(_, _, _)
ApplyTo_Forward(o, i, c) ==
    IF i < 1 THEN c ELSE <<o[i]>> \o ApplyTo_Forward(o, i - 1, c)

\* options.applyTo: for i := len(o) - 1; i >= 0; i-- { c = o[i](c) }
\* The cache is the list of its layers, the one that receives the calls
\* first; o[i](c) puts layer o[i] in front of c.
RECURSIVE ApplyTo(_, _, _)
ApplyTo(o, i, c) ==
    IF i < 1 THEN c ELSE ApplyTo(o, i - 1, <<o[i]>> \o c)

Options == {"serialization", "emitter", "loader"}
Leaves == {"void", "mem", "blob"}

\* The lists of options a cache is built with: each option at most once
OptionLists ==
    {<<>>} \cup {<<a>> : a \in Options}
    \cup {o \in [1..2 -> Options] : o[1] # o[2]}
    \cup {o \in [1..3 -> Options] : \A i, j \in 1..3 : i # j => o[i] # o[j]}

StLeaf == stStack[Len(stStack)]

NoStRet == [op |-> "none", key |-> 0, val |-> 0,
            out |-> Out(NilV, NoErr, FALSE, 0, 0, <<>>, <<>>, <<>>, 0),
            pre |-> EmptyMap, last |-> EmptyMap]

\* One call on the cache built, with int key and value
StCall(op, k, v) ==
    /\ stOps < MaxSOps
    /\ stRet.out.err # ErrPanic
    /\ stOps' = stOps + 1
    /\ LET h == Handle(stStack, 1, op, IF k = 0 THEN NilV ELSE IntV(k),
                       IF v = 0 THEN NilV ELSE IntV(v),
                       [items |-> stItems, bucket |-> stBucket])
       IN /\ stItems' = h.st.items
          /\ stBucket' = h.st.bucket
          /\ stRet' = [op |-> op, key |-> k, val |-> v, out |-> [h EXCEPT !.st = 0],
                       pre |-> stItems, last |-> stLast]
          /\ stLast' = IF op = "put" /\ h.err = NoErr THEN MapSet(stLast, k, v)
                       ELSE IF op = "remove" THEN MapDel(stLast, k)
                       ELSE stLast
    /\ stPrev' = stRet
    /\ UNCHANGED <<stOpts, stStack>>
    /\ UNCHANGED notSt

StPut(k, v) == StCall("put", k, v)
StGet(k) == StCall("get", k, 0)
StRemove(k) == StCall("remove", k, 0)
StFlush == StCall("flush", 0, 0)
\* boltStorage has no Len
StLen == StLeaf # "blob" /\ StCall("len", 0, 0)

\* New...Storage(opts...)
StStart(opts, leaf) ==
    /\ stOpts = opts
    /\ stStack = ApplyTo(opts, Len(opts), <<leaf>>)
    /\ stItems = EmptyMap
    /\ stBucket = FALSE
    /\ stRet = NoStRet
    /\ stPrev = NoStRet
    /\ stLast = EmptyMap
    /\ stOps = 0

StNext ==
    \/ \E k \in StKeys, v \in StVals : StPut(k, v)
    \/ \E k \in StKeys : StGet(k)
    \/ \E k \in StKeys : StRemove(k)
    \/ StFlush
    \/ StLen

(***************************************************************************)
(* Capacity-driven eviction (src/cache/eviction.go, 449-642): Set retries  *)
(* the backend's Set, evicting the entry the strategy pops each time the   *)
(* backend reports ErrCacheFull. The backend is a bounded store: Set of a  *)
(* new key fails with ErrCacheFull when it holds its capacity. The calls   *)
(* are Sets, so every count of the LFU heap is 0 and no comparison moves   *)
(* an element.                                                             *)
(***************************************************************************)
\* lruEviction.Add: PushFront; lfuEviction.Add: heap.Push (append, no move)
CdAdd(keys, k) == IF cdKind = "LRU" THEN <<k>> \o keys ELSE Append(keys, k)

\* lruEviction.Pop: e.keys.Remove(e.keys.Back()), which dereferences nil on
\* an empty list; lfuEviction.Pop: heap.Pop swaps the first and the last
\* element and removes the last, indexing out of range on an empty heap.
CdPop(keys) ==
    IF keys = <<>> THEN [key |-> NoKey, keys |-> keys, panic |-> TRUE]
    ELSE IF cdKind = "LRU"
    THEN [key |-> keys[Len(keys)], keys |-> SubSeq(keys, 1, Len(keys) - 1), panic |-> FALSE]
    ELSE [key |-> keys[1],
          keys |-> IF Len(keys) = 1 THEN <<>>
                   ELSE <<keys[Len(keys)]>> \o SubSeq(keys, 2, Len(keys) - 1),
          panic |-> FALSE]

\* The backend's Set of key k at the attempt numbered n: the error
BackendSet(bs, k, n, fault) ==
    IF fault = n THEN ErrIO
    ELSE IF k \in DOMAIN bs \/ Cardinality(DOMAIN bs) < cdCap THEN NoErr
    ELSE ErrCacheFull

\* The loop of evictingCache.Set, from the attempt numbered n; fulls counts
\* the ErrCacheFull failures, evicted the entries removed. c.Remove(toEvict)
\* removes the entry from the backend; its s.Remove finds nothing, Pop having
\* deleted the key from the strategy's map.
RECURSIVE SetLoop(_, _, _, _, _, _, _, _)
SetLoop(bs, keys, k, v, n, fault, fulls, evicted) ==
    LET err == BackendSet(bs, k, n, fault)
        r(e, st, ks, f, out) ==
            [err |-> e, store |-> st, keys |-> ks, fulls |-> f, evicted |-> evicted,
             ranOut |-> out]
    IN IF err = NoErr THEN r(NoErr, MapSet(bs, k, v), CdAdd(keys, k), fulls, FALSE)
       ELSE IF err # ErrCacheFull THEN r(err, bs, keys, fulls, FALSE)
       ELSE IF CdPop(keys).panic THEN r(ErrPanic, bs, keys, fulls + 1, TRUE)
       ELSE SetLoop(MapDel(bs, CdPop(keys).key), CdPop(keys).keys, k, v, n + 1,
                    fault, fulls + 1, evicted + 1)

\* evictingCache.Set; fault numbers the attempt at which the backend fails
\* with an error of its own (0: none), faulted tells that it was made.
CdSet(k, v) ==
    /\ cdOps < MaxCOps
    /\ cdRet.err # ErrPanic
    /\ cdOps' = cdOps + 1
    /\ \E fault \in (IF cdFaulty THEN 0..2 ELSE {0}) :
          LET r == SetLoop(cdStore, cdKeys, k, v, 1, fault, 0, 0)
          IN /\ cdStore' = r.store
             /\ cdKeys' = r.keys
             /\ cdRet' = [op |-> "set", key |-> k, err |-> r.err, fulls |-> r.fulls,
                          evicted |-> r.evicted, ranOut |-> r.ranOut,
                          faulted |-> (fault # 0 /\ fault <=
                                         IF r.ranOut THEN r.fulls ELSE r.fulls + 1)]
    /\ UNCHANGED <<cdKind, cdCap, cdFaulty>>
    /\ UNCHANGED notCd

\* LRUEviction or LFUEviction over a backend that may hold entries already
CdStart(kind, cap, faulty, held) ==
    /\ cdKind = kind
    /\ cdCap = cap
    /\ cdFaulty = faulty
    /\ cdStore = [k \in held |-> 1]
    /\ cdKeys = <<>>
    /\ cdRet = [op |-> "none", key |-> NoKey, err |-> NoErr, fulls |-> 0, evicted |-> 0,
                ranOut |-> FALSE, faulted |-> FALSE]
    /\ cdOps = 0

CdNext == \E k \in CdKeys, v \in Vals : CdSet(k, v)

(***************************************************************************)
(* The bounded eviction layer (src/cache/eviction.go, 216-288) under       *)
(* concurrent Puts, with no Locking layer: LRUEviction(N) over the memory  *)
(* leaf. The layer's mutex is held around s.Pop() and around s.Added(key)  *)
(* and nowhere else, so each of the two is one step; c.Cache.Len(),        *)
(* c.Cache.Remove and c.Cache.Put run outside it. The leaf is a Go map     *)
(* with no lock of its own: a write to it lasts from a step that begins it *)
(* to a step that ends it, and a write begun while another caller's write  *)
(* has not ended is a data race, which the runtime may detect, stopping    *)
(* the program, or may not.                                                *)
(***************************************************************************)
\* The callers inside a write of the leaf's map, other than p
CeWriters(p) == {q \in Procs \ {p} : cePc[q] \in {"putting", "removing"}}

\* The outcomes of a write begun by p: the program stopped, or not
CeRace(p) == IF CeWriters(p) = {} THEN {FALSE} ELSE {FALSE, TRUE}

\* c.Put(key, value) is called with a key not used before
CeCall(p) ==
    /\ ~ceFatal
    /\ cePc[p] = "idle"
    /\ ceNext <= MaxCePuts
    /\ ceKey' = [ceKey EXCEPT ![p] = ceNext]
    /\ ceNext' = ceNext + 1
    /\ cePc' = [cePc EXCEPT ![p] = "test"]
    /\ UNCHANGED <<ceMax, ceItems, ceStrat, ceEvict, ceFound, ceFatal>>
    /\ UNCHANGED notCe

\* for c.Cache.Len() >= c.maxLen
CeTest(p) ==
    /\ ~ceFatal
    /\ cePc[p] = "test"
    /\ cePc' = [cePc EXCEPT ![p] = IF Cardinality(ceItems) >= ceMax THEN "pop" ELSE "put"]
    /\ UNCHANGED <<ceMax, ceItems, ceStrat, ceKey, ceEvict, ceFound, ceNext, ceFatal>>
    /\ UNCHANGED notCe

\* c.Lock(); toEvict := c.s.Pop(); c.Unlock(); if toEvict == nil { break }
CePop(p) ==
    /\ ~ceFatal
    /\ cePc[p] = "pop"
    /\ ceStrat' = StratPop(ceStrat).strat
    /\ ceEvict' = [ceEvict EXCEPT ![p] = StratPop(ceStrat).key]
    /\ cePc' = [cePc EXCEPT ![p] = IF StratPop(ceStrat).key = NoKey THEN "put" ELSE "remove"]
    /\ UNCHANGED <<ceMax, ceItems, ceKey, ceFound, ceNext, ceFatal>>
    /\ UNCHANGED notCe

\* c.Cache.Remove(toEvict) begins
CeRemove(p) ==
    /\ ~ceFatal
    /\ cePc[p] = "remove"
    /\ \E fatal \in CeRace(p) : ceFatal' = fatal
    /\ ceFound' = [ceFound EXCEPT ![p] = ceEvict[p] \in ceItems]
    /\ ceItems' = ceItems \ {ceEvict[p]}
    /\ cePc' = [cePc EXCEPT ![p] = "removing"]
    /\ UNCHANGED <<ceMax, ceStrat, ceKey, ceEvict, ceNext>>
    /\ UNCHANGED notCe

\* if !c.Cache.Remove(toEvict) { break }
CeRemoved(p) ==
    /\ ~ceFatal
    /\ cePc[p] = "removing"
    /\ cePc' = [cePc EXCEPT ![p] = IF ceFound[p] THEN "test" ELSE "put"]
    /\ UNCHANGED <<ceMax, ceItems, ceStrat, ceKey, ceEvict, ceFound, ceNext, ceFatal>>
    /\ UNCHANGED notCe

\* err = c.Cache.Put(key, value) begins
CePut(p) ==
    /\ ~ceFatal
    /\ cePc[p] = "put"
    /\ \E fatal \in CeRace(p) : ceFatal' = fatal
    /\ ceItems' = ceItems \cup {ceKey[p]}
    /\ cePc' = [cePc EXCEPT ![p] = "putting"]
    /\ UNCHANGED <<ceMax, ceStrat, ceKey, ceEvict, ceFound, ceNext>>
    /\ UNCHANGED notCe

\* the inner Put returns nil
CePutDone(p) ==
    /\ ~ceFatal
    /\ cePc[p] = "putting"
    /\ cePc' = [cePc EXCEPT ![p] = "added"]
    /\ UNCHANGED <<ceMax, ceItems, ceStrat, ceKey, ceEvict, ceFound, ceNext, ceFatal>>
    /\ UNCHANGED notCe

\* c.Lock(); c.s.Added(key); c.Unlock(); return nil
CeAdded(p) ==
    /\ ~ceFatal
    /\ cePc[p] = "added"
    /\ ceStrat' = StratAdded(ceStrat, ceKey[p])
    /\ cePc' = [cePc EXCEPT ![p] = "idle"]
    /\ UNCHANGED <<ceMax, ceItems, ceKey, ceEvict, ceFound, ceNext, ceFatal>>
    /\ UNCHANGED notCe

\* NewMemoryStorage(LRUEviction(n))
CeStart(n) ==
    /\ ceMax = n
    /\ ceItems = {}
    /\ ceStrat = NewStrategy("LRU")
    /\ cePc = [p \in Procs |-> "idle"]
    /\ ceKey = [p \in Procs |-> NoKey]
    /\ ceEvict = [p \in Procs |-> NoKey]
    /\ ceFound = [p \in Procs |-> FALSE]
    /\ ceNext = 1
    /\ ceFatal = FALSE

CeNext ==
    \E p \in Procs :
        \/ CeCall(p)
        \/ CeTest(p)
        \/ CePop(p)
        \/ CeRemove(p)
        \/ CeRemoved(p)
        \/ CePut(p)
        \/ CePutDone(p)
        \/ CeAdded(p)

(***************************************************************************)
(* The specifications: one per part, the other parts at rest.              *)
(***************************************************************************)
\* The parts at rest
CoreAtRest ==
    /\ SFStart("mem")
    /\ strat = NewStrategy("LRU")
    /\ SUStart("free")
    /\ EvStart("free", 1)

BuiltAtRest ==
    /\ LkStart
    /\ StStart(<<>>, "mem")
    /\ CdStart("LRU", 1, FALSE, {})
    /\ CeStart(1)

LayersAtRest ==
    /\ XStart("map", "mem", "free", 1)
    /\ WTStart("mem")
    /\ LyStart("logErrors", "mem", 0)
    /\ BuiltAtRest

SFInit ==
    /\ \E pp \in Pipes : SFStart(pp)
    /\ strat = NewStrategy("LRU")
    /\ SUStart("free")
    /\ EvStart("free", 1)
    /\ LayersAtRest

SpecSF == SFInit /\ [][SFNext]_vars

\* What a caller does once it is inside an operation, and what the goroutine
\* of a Call does
CallerStep(p) ==
    SFAwait(p) \/ SFPutResolve(p) \/ SFRemoveResolve(p) \/ SFFlushReturn(p)
BgStep(i) == BgInnerGet(i) \/ BgLoad(i) \/ BgWriteBack(i) \/ BgResolve(i)

\* The Go scheduler runs every goroutine that can run: a caller inside an
\* operation, the goroutine newCall starts, the goroutine Resolve starts for
\* the hook. The hook waits at f.Lock(); sync.Mutex hands the lock to a
\* goroutine that keeps waiting, so the hook gets it if it is free again and
\* again. Callers are free to start operations or not.
SFLiveInit ==
    /\ SFStart("loadmem")
    /\ strat = NewStrategy("LRU")
    /\ SUStart("free")
    /\ EvStart("free", 1)
    /\ LayersAtRest

SFLiveNext ==
    \/ \E p \in Procs, k \in SFKeys : nops < MaxLiveOps /\ SFGet(p, k)
    \/ \E p \in Procs : SFAwait(p)
    \/ \E p \in Procs, k \in SFKeys, v \in Vals : nops < MaxLiveOps /\ SFPutLock(p, k, v)
    \/ \E p \in Procs : SFPutResolve(p)
    \/ \E p \in Procs, k \in SFKeys : nops < MaxLiveOps /\ SFRemoveLock(p, k)
    \/ \E p \in Procs : SFRemoveResolve(p)
    \/ \E p \in Procs : nops < MaxLiveOps /\ SFFlushLock(p)
    \/ \E p \in Procs : SFFlushReturn(p)
    \/ \E i \in 1..MaxLiveOps : BgInnerGet(i)
    \/ \E i \in 1..MaxLiveOps : BgLoad(i)
    \/ \E i \in 1..MaxLiveOps : BgWriteBack(i)
    \/ \E i \in 1..MaxLiveOps : BgResolve(i)
    \/ \E i \in 1..MaxLiveOps : SFCleanup(i)

SpecSFLive ==
    /\ SFLiveInit
    /\ [][SFLiveNext]_vars
    /\ \A p \in Procs : WF_vars(CallerStep(p))
    /\ \A i \in 1..MaxLiveOps : WF_vars(BgStep(i)) /\ SF_vars(SFCleanup(i))

StratInit ==
    /\ SFStart("mem")
    /\ \E kind \in Kinds : strat = NewStrategy(kind)
    /\ \E mode \in {"free", "script"} : SUStart(mode)
    /\ EvStart("free", 1)
    /\ LayersAtRest

SpecStrat == StratInit /\ [][SUNext]_vars

EvInit ==
    /\ SFStart("mem")
    /\ \E kind \in Kinds : strat = NewStrategy(kind)
    /\ SUStart("free")
    /\ \/ \E n \in 1..MaxCap : EvStart("free", n)
       \/ EvStart("script", ScenarioCap)
       \/ EvStart("faulty", 1)
    /\ LayersAtRest

SpecEvict == EvInit /\ [][EvNext]_vars

XInit ==
    /\ CoreAtRest
    /\ BuiltAtRest
    /\ WTStart("mem")
    /\ LyStart("logErrors", "mem", 0)
    /\ \/ \E variant \in {"map", "syncmap"}, inner \in {"mem", "faulty"}, ttl \in 1..MaxTtl :
             XStart(variant, inner, "free", ttl)
       \/ \E variant \in {"map", "syncmap"} : XStart(variant, "mem", "script", ScenarioTtl)

SpecExpire == XInit /\ [][XNext]_vars

\* The expiration layer of src/unnamed/part_017, whose Set flushes
XSetInit ==
    /\ CoreAtRest
    /\ BuiltAtRest
    /\ WTStart("mem")
    /\ LyStart("logErrors", "mem", 0)
    /\ \E inner \in {"mem", "faulty"} : XStart("set", inner, "free", 1)

SpecExpireSet == XSetInit /\ [][XNext]_vars

WTInit ==
    /\ CoreAtRest
    /\ BuiltAtRest
    /\ XStart("map", "mem", "free", 1)
    /\ LyStart("logErrors", "mem", 0)
    /\ \E tiers \in {"mem", "faulty"} : WTStart(tiers)

SpecWT == WTInit /\ [][WTNext]_vars

LyInit ==
    /\ CoreAtRest
    /\ BuiltAtRest
    /\ XStart("map", "mem", "free", 1)
    /\ WTStart("mem")
    /\ \E kind \in LayerKinds, inner \in InnerKinds :
          \E cap \in (IF kind = "emitter" THEN 0..MaxChan ELSE {0}) :
              LyStart(kind, inner, cap)

SpecLayer == LyInit /\ [][LyNext]_vars

\* Loader(f) over a fresh inner cache; the layer has no channel
LdInit ==
    /\ CoreAtRest
    /\ BuiltAtRest
    /\ XStart("map", "mem", "free", 1)
    /\ WTStart("mem")
    /\ \E inner \in InnerKinds : LyStart("loader", inner, 0)

LdNext ==
    \/ \E k \in LKeys, v \in LVals : LPut(k, v)
    \/ \E k \in LKeys : LGet(k)
    \/ \E k \in LKeys : LRemove(k)
    \/ LFlush
    \/ LLen

SpecLoader == LdInit /\ [][LdNext]_vars

LkInit ==
    /\ CoreAtRest
    /\ XStart("map", "mem", "free", 1)
    /\ WTStart("mem")
    /\ LyStart("logErrors", "mem", 0)
    /\ LkStart
    /\ StStart(<<>>, "mem")
    /\ CdStart("LRU", 1, FALSE, {})
    /\ CeStart(1)

SpecLock == LkInit /\ [][LkNext]_vars

\* The inner operation returns and the deferred Unlock runs once the caller
\* is scheduled; sync.Mutex hands the lock to a caller that keeps waiting
\* (its starvation mode), so a waiting caller is not passed over for ever.
SpecLockLive ==
    /\ SpecLock
    /\ \A p \in Procs :
          WF_vars(LkInner(p)) /\ WF_vars(LkUnlock(p)) /\ SF_vars(LkLock(p))

StInit ==
    /\ CoreAtRest
    /\ XStart("map", "mem", "free", 1)
    /\ WTStart("mem")
    /\ LyStart("logErrors", "mem", 0)
    /\ LkStart
    /\ CdStart("LRU", 1, FALSE, {})
    /\ \E opts \in OptionLists, leaf \in Leaves : StStart(opts, leaf)
    /\ CeStart(1)

SpecStack == StInit /\ [][StNext]_vars

CdInit ==
    /\ CoreAtRest
    /\ XStart("map", "mem", "free", 1)
    /\ WTStart("mem")
    /\ LyStart("logErrors", "mem", 0)
    /\ LkStart
    /\ StStart(<<>>, "mem")
    /\ \E kind \in Kinds, cap \in 0..MaxBCap, faulty \in BOOLEAN, held \in SUBSET {3} :
          /\ Cardinality(held) <= cap
          /\ CdStart(kind, cap, faulty, held)
    /\ CeStart(1)

SpecCd == CdInit /\ [][CdNext]_vars

CeInit ==
    /\ CoreAtRest
    /\ XStart("map", "mem", "free", 1)
    /\ WTStart("mem")
    /\ LyStart("logErrors", "mem", 0)
    /\ LkStart
    /\ StStart(<<>>, "mem")
    /\ CdStart("LRU", 1, FALSE, {})
    /\ \E n \in 1..MaxCap : CeStart(n)

SpecCe == CeInit /\ [][CeNext]_vars


(***************************************************************************)
(* Claims about the single-flight layer, checked under SpecSF.             *)
(***************************************************************************)
\* The inner Get of Call i has been entered and has not returned: it is
\* inside loader.Get, calling the loader function or writing back.
InnerGetExecuting(i) == cl[i].gets > 0 /\ cl[i].bg \in {"load", "put"}

\* C1: for every key, at most one inner Get launched by the layer is
\* executing (started and not yet returned), in every reachable state.
C1_OneInnerGetPerKey ==
    \A k \in SFKeys :
        Cardinality({i \in 1..Len(cl) : cl[i].key = k /\ InnerGetExecuting(i)}) <= 1

\* Callers p and q have both returned from a Get, q's Get having arrived while
\* the Call p waited on was unresolved, and no Put or Remove resolved it.
DedupPair(p, q) ==
    /\ p # q
    /\ ret[p].op = "get"
    /\ ret[q].op = "get"
    /\ garr[q] # 0
    /\ garr[q] = ret[p].call
    /\ cl[garr[q]].by = "bg"

\* C2: a Get that arrives while the Call of another Get of the key is still
\* unresolved waits on that Call; when no Put or Remove resolves it, the inner
\* Get ran once for both and both return the same (value, error).
C2_Dedup ==
    /\ \A q \in Procs :
          pc[q] = "await" /\ garr[q] # 0 => lcall[q] = garr[q]
    /\ \A p, q \in Procs :
          DedupPair(p, q) =>
              /\ ret[q].call = ret[p].call
              /\ cl[ret[p].call].gets = 1
              /\ ret[q].val = ret[p].val
              /\ ret[q].err = ret[p].err

C2_Witness ==
    \E p, q \in Procs :
        /\ DedupPair(p, q)
        /\ pipe = "loadvoid"
        /\ ret[p].val \in Vals
        /\ ret[q].val = ret[p].val

\* C3: when Put(k, v') resolves a Call that was still unresolved, every Get
\* waiting on that Call returns (v', nil), also after the inner Get has
\* returned another value.
C3_PutOverridesPending ==
    /\ \A i \in 1..Len(cl) :
          cl[i].by = "put" =>
              cl[i].resolved /\ cl[i].value = cl[i].byv /\ cl[i].err = NoErr
    /\ \A p \in Procs :
          ret[p].op = "get" /\ cl[ret[p].call].by = "put" =>
              ret[p].val = cl[ret[p].call].byv /\ ret[p].err = NoErr

\* A Get returned the put value after its own inner Get had loaded another
\* value and resolved too late.
C3_Witness ==
    \E p \in Procs :
        /\ ret[p].op = "get"
        /\ cl[ret[p].call].by = "put"
        /\ cl[ret[p].call].bg = "done"
        /\ cl[ret[p].call].bgv \in Vals \ {cl[ret[p].call].byv}
        /\ ret[p].val = cl[ret[p].call].byv

\* C4: when Remove(k) resolves a Call that was still unresolved, Remove
\* returns true and every Get waiting on that Call returns
\* (nil, ErrKeyNotFound), also after the inner Get has returned a value.
C4_RemoveOverridesPending ==
    /\ \A q \in Procs :
          ret[q].op = "remove" /\ ret[q].call # 0 => ret[q].ok
    /\ \A i \in 1..Len(cl) :
          cl[i].by = "remove" =>
              cl[i].resolved /\ cl[i].value = Nil /\ cl[i].err = ErrKeyNotFound
    /\ \A p \in Procs :
          ret[p].op = "get" /\ cl[ret[p].call].by = "remove" =>
              ret[p].val = Nil /\ ret[p].err = ErrKeyNotFound

\* Nothing was stored, Remove returned true for the Call alone, and the Get
\* returned not-found after its inner Get had loaded a value.
C4_Witness ==
    \E p, q \in Procs :
        /\ ret[q].op = "remove"
        /\ ret[q].ok
        /\ ret[q].call # 0
        /\ ret[p].op = "get"
        /\ ret[p].call = ret[q].call
        /\ cl[ret[p].call].by = "remove"
        /\ cl[ret[p].call].bg = "done"
        /\ cl[ret[p].call].bgv \in Vals
        /\ ret[p].err = ErrKeyNotFound

\* C5: over a memory leaf, a Get(k) that starts after Put(k, v) returned nil,
\* with no Put or Remove of k since, returns (v, nil).
C5_PutThenGet ==
    \A p \in Procs :
        pipe = "mem" /\ ret[p].op = "get" /\ gexp[p].kind = "put" =>
            ret[p].val = gexp[p].val /\ ret[p].err = NoErr

\* C6: over a memory leaf, a Get(k) that starts after Remove(k) returned
\* true, with no Put of k since, returns ErrKeyNotFound.
C6_RemoveThenGet ==
    \A p \in Procs :
        pipe = "mem" /\ ret[p].op = "get" /\ gexp[p].kind = "removed" =>
            ret[p].err = ErrKeyNotFound

(***************************************************************************)
(* Claims about the eviction layer, checked under SpecEvict.               *)
(***************************************************************************)
\* C7: after any sequence of Put, Get and Remove calls through the bounded
\* eviction layer, overwriting Puts included, Len() <= N.
C7_EvictionBound == EvLen <= evMaxLen

\* C8: every key a later Pop() can return is present in the inner storage,
\* and every key present in the inner storage is tracked.
C8_BookkeepingConsistent == StratKeys(strat) = DOMAIN evStore

\* The scenario's eight calls, and its ninth, have been made on LRU eviction.
ScenarioAt(n) == evMode = "script" /\ strat.kind = "LRU" /\ evStep = n

\* C9, as claimed: after the scenario's eight calls on LRU eviction of
\* capacity 3, Len() is 3 and Get(3) returns ErrKeyNotFound.
C9_ScenarioEvicts3 ==
    /\ ScenarioAt(8) => EvLen = 3
    /\ ScenarioAt(9) /\ evRet.key = 3 => evRet.err = ErrKeyNotFound

\* C9, amended: after the scenario's eight calls on LRU eviction of capacity
\* 3, Len() is 3 and the entries left are 3, 4 and 5: Get(3) returns 30 and
\* Get(1) returns ErrKeyNotFound (1 is the least recently used entry).
C9_ScenarioEvicts1 ==
    /\ ScenarioAt(8) => EvLen = 3 /\ DOMAIN evStore = {3, 4, 5}
    /\ ScenarioAt(9) /\ evRet.key = 3 => evRet.val = 30 /\ evRet.err = NoErr
    /\ ScenarioAt(9) /\ evRet.key = 1 => evRet.val = Nil /\ evRet.err = ErrKeyNotFound

C9_Witness == ScenarioAt(9) /\ evRet.op = "get" /\ evRet.key = 3 /\ evRet.val = 30

(***************************************************************************)
(* Claims about a strategy on its own, checked under SpecStrat.            *)
(***************************************************************************)
\* C10: on an LRU strategy given Added (of untracked keys), Hit and Removed,
\* Pop() returns the tracked key whose last Added or Hit is the oldest and
\* none when nothing is tracked, Removed(k) returns true exactly when k was
\* tracked, and the test's calls return 1, 4, 2, 5, none.
C10_LruOrder ==
    strat.kind = "LRU" /\ ~dupAdded =>
        /\ sRet.op = "pop" => sExp.keys = {sRet.key}
        /\ sRet.op = "removed" => sRet.ok = sExp.ok
        /\ sMode = "script" /\ sStep >= 1 =>
              sRet.key = LruScript[sStep].exp /\ sRet.ok = LruScript[sStep].ok

\* The test's calls have all been made, the last Pop finding nothing.
C10_Witness ==
    /\ strat.kind = "LRU"
    /\ sMode = "script"
    /\ sStep = Len(LruScript)
    /\ sRet.op = "pop"
    /\ sRet.key = NoKey

\* C11: on an LFU strategy given Added (of untracked keys), Hit and Removed,
\* Pop() returns a tracked key whose hit count is minimal among the tracked
\* keys (a Hit on an untracked key tracks it with count 1) and none when
\* nothing is tracked, and the test's calls return 1, 4, 2, none.
C11_LfuOrder ==
    strat.kind = "LFU" /\ ~dupAdded =>
        /\ sRet.op = "pop" => sRet.key \in sExp.keys
        /\ sRet.op = "removed" => sRet.ok = sExp.ok
        /\ sMode = "script" /\ sStep >= 1 =>
              sRet.key = LfuScript[sStep].exp /\ sRet.ok = LfuScript[sStep].ok

\* The LFU test's calls have all been made, the last Pop finding nothing.
C11_Witness ==
    /\ strat.kind = "LFU"
    /\ sMode = "script"
    /\ sStep = Len(LfuScript)
    /\ sRet.op = "pop"
    /\ sRet.key = NoKey

(***************************************************************************)
(* Claims about the expiration layer, checked under SpecExpire.            *)
(***************************************************************************)
\* C12: a Get at time t of an entry written by Put at time t0 with TTL d
\* returns the value when t <= t0 + d and ErrKeyNotFound when t > t0 + d,
\* however many Gets hit it before; with TTL 8 the test's Gets return 6 at 0
\* and at 5, and ErrKeyNotFound for both keys at 15.
C12_Expiration ==
    /\ xRet.op = "get" /\ xRet.put.at >= 0 =>
          IF xNow <= xRet.put.at + xRet.put.ttl
          THEN xRet.val = xRet.put.val /\ xRet.err = NoErr
          ELSE xRet.val = Nil /\ xRet.err = ErrKeyNotFound
    /\ xMode = "script" /\ xStep \in {2, 4} => xRet.val = 6 /\ xRet.err = NoErr
    /\ xMode = "script" /\ xStep \in {7, 8} =>
          xRet.val = Nil /\ xRet.err = ErrKeyNotFound

\* The test's last Get: key 7, put at 5, is gone at 15.
C12_Witness ==
    /\ xMode = "script"
    /\ xStep = 8
    /\ xRet.op = "get"
    /\ xRet.key = 7
    /\ xRet.put.at = 5
    /\ xNow = 15
    /\ xRet.err = ErrKeyNotFound

\* C13: after Flush(), no key whose deadline was before Now() is left in the
\* inner cache, every key whose deadline was not before Now() is still there
\* with its value, and the inner Flush was called once.
C13_ExpirationFlush ==
    xRet.op = "flush" =>
        /\ \A k \in DOMAIN xPre.dates :
              Before(xPre.dates[k], xPre.now) => k \notin DOMAIN xStore
        /\ \A k \in DOMAIN xPre.dates \cap DOMAIN xPre.store :
              ~Before(xPre.dates[k], xPre.now) =>
                  k \in DOMAIN xStore /\ xStore[k] = xPre.store[k]
        /\ xRet.flushes = 1

\* A Flush removed an expired entry and kept one whose deadline was the
\* time of the Flush.
C13_Witness ==
    /\ xRet.op = "flush"
    /\ \E k \in DOMAIN xPre.store : k \notin DOMAIN xStore
    /\ \E k \in DOMAIN xStore : k \in DOMAIN xPre.dates /\ xPre.dates[k] = xPre.now

(***************************************************************************)
(* Claims about the write-through layer, checked under SpecWT.             *)
(***************************************************************************)
\* C14: as a Put(k, v) through the layer returns nil, outer.Get(k) and
\* inner.Get(k) both return v; a Get(k) through the layer that misses the
\* outer tier and hits the inner tier returns the inner value and leaves
\* outer.Get(k) returning that value.
C14_WriteThroughPropagation ==
    \A p \in Procs :
        /\ wRet[p].op = "put" /\ wRet[p].err = NoErr =>
              wRet[p].seenOuter = wRet[p].val /\ wRet[p].seenInner = wRet[p].val
        /\ wRet[p].op = "get" /\ wRet[p].path = "inner" /\ wRet[p].err = NoErr =>
              /\ wRet[p].val # Nil
              /\ wRet[p].val = wRet[p].seenInner
              /\ wRet[p].seenOuter = wRet[p].val

\* A Get found its value in the inner tier alone (a Put had written the
\* inner tier and failed on the outer one) and wrote it back.
C14_Witness ==
    \E p \in Procs :
        /\ wRet[p].op = "get"
        /\ wRet[p].path = "inner"
        /\ wRet[p].err = NoErr
        /\ wRet[p].val \in WVals
        /\ wRet[p].seenOuter = wRet[p].val

\* C15: with two memory leaves as tiers, whenever no operation holds the
\* layer's mutex, every key present in the outer tier is present in the
\* inner tier with the same value.
C15_TiersConsistent ==
    wTiers = "mem" /\ wMu = 0 =>
        \A k \in DOMAIN wOuter : k \in DOMAIN wInner /\ wInner[k] = wOuter[k]

\* Between memory tiers, a Remove and a Get of the same key have both
\* returned, after a Put, and the mutex is free.
C15_Witness ==
    /\ wTiers = "mem"
    /\ wMu = 0
    /\ \E p, q \in Procs :
          /\ p # q
          /\ wRet[p].op = "get"
          /\ wRet[p].path = "outer"
          /\ wRet[q].op = "remove"
          /\ wRet[q].ok
          /\ wRet[q].key = wRet[p].key
          /\ wRet[p].key \notin DOMAIN wOuter

\* C16: Put writes the inner tier first: when the inner Put fails the outer
\* tier is not written and the inner error is returned; when the inner Put
\* succeeds and the outer Put fails the outer error is returned.
C16_WriteThroughPutErrors ==
    \A p \in Procs :
        /\ wPc[p] = "put2" => wLoc[p].puts = [inner |-> 1, outer |-> 0]
        /\ wRet[p].op = "put" /\ wRet[p].errs.inner # NoErr =>
              wRet[p].puts.outer = 0 /\ wRet[p].err = wRet[p].errs.inner
        /\ wRet[p].op = "put" /\ wRet[p].errs.inner = NoErr =>
              /\ wRet[p].puts = [inner |-> 1, outer |-> 1]
              /\ wRet[p].err = wRet[p].errs.outer

\* One Put failed on the inner tier, another on the outer tier.
C16_Witness ==
    \E p, q \in Procs :
        /\ wRet[p].op = "put"
        /\ wRet[p].err = ErrInner
        /\ wRet[p].puts.outer = 0
        /\ wRet[q].op = "put"
        /\ wRet[q].err = ErrOuter
        /\ wRet[q].puts.inner = 1

(***************************************************************************)
(* Claims about the observing and validating layers, checked under         *)
(* SpecLayer.                                                              *)
(***************************************************************************)
LayerOps == {"put", "get", "remove", "flush", "len"}

\* C17: through LogErrors, the error Put, Get and Flush return is the error
\* the inner cache returned, and ErrKeyNotFound is never passed to the log
\* function.
C17_ErrorsNotSwallowed ==
    lyKind = "logErrors" =>
        /\ lyRet.op \in {"put", "get", "flush"} => lyRet.out.err = lyRet.inner.err
        /\ ErrKeyNotFound \notin lyLog

\* The events of the channel, oldest first, are in the order of their
\* operations.
InOrder(ch) == \A i, j \in 1..Len(ch) : i < j => ch[i].seq < ch[j].seq

\* C18: through the Emitter, every operation returns the inner cache's
\* result, also when the channel is full and not read: the event is then
\* dropped; the channel never holds more events than its capacity, and
\* holds them in the order the operations completed.
C18_EmitterNeverBlocks ==
    lyKind = "emitter" =>
        /\ lyRet.op \in LayerOps => lyRet.out = lyRet.inner
        /\ lyRet.op \in LayerOps /\ Len(lyPre.ch) = lyCap => lyCh = lyPre.ch
        /\ Len(lyCh) <= lyCap
        /\ InOrder(lyCh)

\* A Get returned the inner cache's miss while the channel was full, and its
\* event was dropped.
C18_Witness ==
    /\ lyKind = "emitter"
    /\ lyCap >= 1
    /\ Len(lyPre.ch) = lyCap
    /\ lyRet.op = "get"
    /\ lyRet.out.err = ErrKeyNotFound
    /\ lyCh = lyPre.ch

\* C19: when the channel has room, an operation through the Emitter
\* publishes one Event: its type is the operation's, its key the operation's
\* key (nil for FLUSH and LEN), its value the put value (PUT), the returned
\* value (GET), flag (REMOVE) or count (LEN), its error the inner error of
\* PUT, GET or FLUSH.
C19_EmitterFidelity ==
    lyKind = "emitter" /\ lyRet.op \in LayerOps /\ Len(lyPre.ch) < lyCap =>
        /\ Len(lyCh) = Len(lyPre.ch) + 1
        /\ SubSeq(lyCh, 1, Len(lyPre.ch)) = lyPre.ch
        /\ LET ev == lyCh[Len(lyCh)]
               r == lyRet.inner
           IN /\ ev.type = lyRet.op
              /\ lyRet.op = "put" =>
                    /\ ev.key = lyRet.key
                    /\ ev.value = [kind |-> "value", n |-> lyRet.val]
                    /\ ev.err = r.err
              /\ lyRet.op = "get" =>
                    /\ ev.key = lyRet.key
                    /\ ev.value = IF r.err = NoErr THEN [kind |-> "value", n |-> r.val]
                                  ELSE [kind |-> "nil", n |-> 0]
                    /\ ev.err = r.err
              /\ lyRet.op = "remove" =>
                    /\ ev.key = lyRet.key
                    /\ ev.value = [kind |-> "bool", n |-> IF r.ok THEN 1 ELSE 0]
                    /\ ev.err = NoErr
              /\ lyRet.op = "flush" =>
                    /\ ev.key = NoKey
                    /\ ev.value = [kind |-> "nil", n |-> 0]
                    /\ ev.err = r.err
              /\ lyRet.op = "len" =>
                    /\ ev.key = NoKey
                    /\ ev.value = [kind |-> "int", n |-> Cardinality(DOMAIN lyStore)]
                    /\ ev.err = NoErr

\* A Remove that found its key published REMOVE with true, behind an event
\* still in the channel.
C19_Witness ==
    /\ lyKind = "emitter"
    /\ lyRet.op = "remove"
    /\ lyRet.inner.ok
    /\ Len(lyCh) = 2
    /\ lyCh[2].type = "remove"
    /\ lyCh[2].value = [kind |-> "bool", n |-> 1]

\* C20: on a Get hit through the Validator, a predicate returning false
\* removes the entry and the Get returns (nil, ErrKeyNotFound), so Len is
\* one less and the next Get misses; a predicate returning an error removes
\* the entry and the Get returns that error with a nil value; a predicate
\* returning true leaves the inner cache as it was and the Get returns the
\* value.
C20_Validator ==
    lyKind = "validator" /\ lyRet.op = "get" /\ lyRet.inner.err = NoErr =>
        /\ lyRet.f = <<FALSE, NoErr>> =>
              /\ lyRet.out = Res(Nil, ErrKeyNotFound, FALSE, 0)
              /\ Cardinality(DOMAIN lyStore) = Cardinality(DOMAIN lyPre.store) - 1
              /\ InnerGet(lyRet.key, NoErr).err = ErrKeyNotFound
        /\ lyRet.f[2] # NoErr =>
              /\ lyRet.out = Res(Nil, lyRet.f[2], FALSE, 0)
              /\ lyRet.key \notin DOMAIN lyStore
        /\ lyRet.f = <<TRUE, NoErr>> =>
              /\ lyRet.out = Res(lyPre.store[lyRet.key], NoErr, FALSE, 0)
              /\ lyStore = lyPre.store

\* The predicate rejected one of two entries.
C20_Witness ==
    /\ lyKind = "validator"
    /\ lyRet.op = "get"
    /\ lyRet.inner.err = NoErr
    /\ lyRet.f = <<FALSE, NoErr>>
    /\ lyRet.out.err = ErrKeyNotFound
    /\ Cardinality(DOMAIN lyPre.store) = 2
    /\ Cardinality(DOMAIN lyStore) = 1

(***************************************************************************)
(* More claims about the single-flight layer, checked under SpecSF.        *)
(***************************************************************************)
\* C26: when Flush returns, every Call that was in the calls table when the
\* Flush took the layer's lock is resolved, so a Get waiting on such a Call
\* can return.
C26_FlushWaits ==
    \A p \in Procs : ret[p].op = "flush" =>
        \A i \in 1..Len(cl) : p \in cl[i].fl => cl[i].resolved

\* A Flush has returned while a Get still waits on a Call the Flush found in
\* the table.
C26_Witness ==
    \E p, q \in Procs :
        /\ ret[p].op = "flush"
        /\ pc[q] = "await"
        /\ p \in cl[lcall[q]].fl

\* C27: a Call is completed at most once: the stored value and error are
\* those of the first Resolve whatever Resolve follows, the waiters return
\* them, and the waiter counter is decremented and the on-resolve hook
\* started exactly once.
C27_ResolveOnce ==
    /\ \A i \in 1..Len(cl) :
          LET c == cl[i]
          IN IF ~c.resolved THEN c.dones = 0 /\ c.hooks = 0
             ELSE /\ c.dones = 1
                  /\ c.hooks = 1
                  /\ c.by = "put" => c.value = c.byv /\ c.err = NoErr
                  /\ c.by = "remove" => c.value = Nil /\ c.err = ErrKeyNotFound
                  /\ c.by = "bg" =>
                        IF c.bge # NoErr THEN c.value = Nil /\ c.err = c.bge
                        ELSE c.value = c.bgv /\ c.err = NoErr
    /\ \A p \in Procs : ret[p].op = "get" =>
          /\ ret[p].val = cl[ret[p].call].value
          /\ ret[p].err = cl[ret[p].call].err

\* A Put resolved the Call first; the background Get, which had missed,
\* called Resolve after it, and a waiter returned the Put's value.
C27_Witness ==
    \E p \in Procs :
        /\ ret[p].op = "get"
        /\ ret[p].err = NoErr
        /\ cl[ret[p].call].by = "put"
        /\ cl[ret[p].call].bg = "done"
        /\ cl[ret[p].call].bge = ErrKeyNotFound

\* C30: Remove returns true only if the inner Remove returned true or its
\* own Resolve found the Call of the key unresolved.
C30_RemoveTrueOnlyIf ==
    \A p \in Procs : ret[p].op = "remove" /\ ret[p].ok =>
        ret[p].found \/ ret[p].first

\* C28: Put through the bounded eviction layer returns the error the inner
\* Put returned, and calls Added(key) only when the inner Put succeeded.
C28_PutSurfacesErrors ==
    evRet.op = "put" =>
        /\ evRet.err = evRet.inner
        /\ evRet.added => evRet.inner = NoErr

(***************************************************************************)
(* Claim about the Locking layer, checked under SpecLockLive.              *)
(***************************************************************************)
\* C23: through the Locking layer at most one operation of the inner cache
\* is executing at any time, and every caller that has called an operation
\* eventually returns from it.
C23_LockingExclusive ==
    /\ [](Cardinality({p \in Procs : lkPc[p] = "inner"}) <= 1)
    /\ \A p \in Procs : (lkPc[p] # "idle") ~> (lkPc[p] = "idle")

\* One caller is inside the inner cache's Put while the other waits at Lock
\* for a Get.
C23_Witness ==
    \E p, q \in Procs :
        /\ lkPc[p] = "inner" /\ lkArg[p].op = "put"
        /\ lkPc[q] = "lock" /\ lkArg[q].op = "get"

(***************************************************************************)
(* Claims about a cache built from a leaf and options, checked under       *)
(* SpecStack.                                                              *)
(***************************************************************************)
\* The cache is the memory leaf under the Loader option, with or without the
\* Emitter.
LoaderOverMemory ==
    /\ StLeaf = "mem"
    /\ stOpts \in {<<"loader">>, <<"emitter", "loader">>, <<"loader", "emitter">>}

\* C21: a Get(k) through Loader(f) over the memory leaf calls f only when
\* the inner Get returns ErrKeyNotFound, then stores (k, f(k)) in the inner
\* cache and returns f(k), here k + 10; while k is not removed later Gets
\* return the stored value without calling f, and after Put(k, v) they
\* return v.
C21_LoaderFillsOnMiss ==
    LoaderOverMemory /\ stRet.op = "get" =>
        LET k == stRet.key
            o == stRet.out
        IN /\ o.err = NoErr
           /\ o.loads = (IF o.recv[1].err = ErrKeyNotFound THEN 1 ELSE 0)
           /\ o.loads = (IF IntV(k) \in DOMAIN stRet.pre THEN 0 ELSE 1)
           /\ o.loads = 1 => o.val = IntV(k + 10) /\ stItems[IntV(k)] = IntV(k + 10)
           /\ o.loads = 0 => o.val = stRet.pre[IntV(k)] /\ stItems = stRet.pre
           /\ k \in DOMAIN stLast => o.val = IntV(stLast[k]) /\ o.loads = 0
           /\ stPrev.op = "get" /\ stPrev.key = k => o.val = stPrev.out.val /\ o.loads = 0

\* Get(5) has loaded 15 and stored it, and the Len() that follows returns 1.
C21_Witness ==
    /\ stOpts = <<"emitter", "loader">>
    /\ StLeaf = "mem"
    /\ stPrev.op = "get" /\ stPrev.key = 5
    /\ stPrev.out.val = IntV(15) /\ stPrev.out.loads = 1
    /\ stRet.op = "len" /\ stRet.out.n = 1

\* C22: on the memory leaf Get(k) returns the value of the most recent Put of
\* k not followed by a Remove of k and ErrKeyNotFound otherwise, Remove(k)
\* returns true exactly when k was present, and Len() is the number of keys
\* present.
C22_MemoryLeaf ==
    stOpts = <<>> /\ StLeaf = "mem" =>
        LET k == stRet.key
            o == stRet.out
        IN /\ stRet.op = "get" =>
                 IF k \in DOMAIN stLast
                 THEN o.val = IntV(stLast[k]) /\ o.err = NoErr
                 ELSE o.val = NilV /\ o.err = ErrKeyNotFound
           /\ stRet.op = "remove" => (o.ok <=> k \in DOMAIN stRet.last)
           /\ stRet.op = "remove" /\ stPrev.op = "remove" /\ stPrev.key = k => ~o.ok
           /\ stRet.op = "len" => o.n = Cardinality(DOMAIN stLast)
           /\ stRet.op \in {"put", "flush"} => o.err = NoErr

\* A second Remove of the same key has returned false after the first
\* returned true.
C22_Witness ==
    /\ stOpts = <<>>
    /\ StLeaf = "mem"
    /\ stPrev.op = "remove" /\ stPrev.out.ok
    /\ stRet.op = "remove" /\ stRet.key = stPrev.key /\ ~stRet.out.ok

\* C24: through Serialization the inner cache receives the serialized key,
\* and the serialized value in Put, and no other; over an inner cache that
\* keeps what it is put, Put(k, v) followed by Get(k) returns the value
\* unserialized from the serialized v, which for the test's serializer is v.
C24_SerializationTransparent ==
    (\E i \in 1..Len(stOpts) : stOpts[i] = "serialization") =>
        /\ \A j \in 1..Len(stRet.out.recv) :
              LET c == stRet.out.recv[j]
              IN c.op \in {"put", "get", "remove"} =>
                    /\ c.key.t = "bytes"
                    /\ Atoi(c.key.b) = <<stRet.key, NoErr>>
                    /\ c.op = "put" /\ stRet.op = "put" =>
                          c.val.t = "bytes" /\ Atoi(c.val.b) = <<stRet.val, NoErr>>
        /\ /\ StLeaf = "blob"
           /\ stPrev.op = "put" /\ stPrev.out.err = NoErr
           /\ stRet.op = "get" /\ stRet.key = stPrev.key
           => stRet.out.val = IntV(stPrev.val) /\ stRet.out.err = NoErr

\* C24 as stated, over any inner cache: Put(k, v) followed by Get(k) returns
\* v through Serialization. voidStorage keeps nothing, so the Get returns
\* ErrKeyNotFound.
C24_AnyInnerCache ==
    /\ \E i \in 1..Len(stOpts) : stOpts[i] = "serialization"
    /\ stPrev.op = "put" /\ stPrev.out.err = NoErr
    /\ stRet.op = "get" /\ stRet.key = stPrev.key
    => stRet.out.val = IntV(stPrev.val) /\ stRet.out.err = NoErr

\* Put(50, 60) then Get(50) through Serialization over the store of byte
\* slices: the store received the bytes of "50", the Get returned 60.
C24_Witness ==
    /\ stOpts = <<"serialization">>
    /\ StLeaf = "blob"
    /\ stPrev.op = "put" /\ stPrev.key = 50 /\ stPrev.val = 60
    /\ stPrev.out.recv[1].val = BytesV(<<54, 48>>)
    /\ stRet.op = "get" /\ stRet.key = 50
    /\ stRet.out.recv[1].key = BytesV(<<53, 48>>)
    /\ stRet.out.val = IntV(60)

\* The place of an option in the list (0: not listed)
PlaceOf(name) ==
    IF \E i \in 1..Len(stOpts) : stOpts[i] = name
    THEN CHOOSE i \in 1..Len(stOpts) : stOpts[i] = name ELSE 0

\* C25: a call on the cache built from a leaf and the options o1, ..., on
\* goes through o1's layer first, then o2's, ..., then on's, then the leaf;
\* with Serialization listed before Emitter the events carry the serialized
\* key and value, with Emitter listed first the caller's.
C25_CompositionOrder ==
    stRet.op # "none" =>
        LET tr == stRet.out.trace
        IN /\ \A i \in 1..Len(tr) : i <= Len(stOpts) => tr[i] = stOpts[i]
           /\ stRet.out.err # ErrPanic =>
                 /\ Len(tr) > Len(stOpts)
                 /\ tr[Len(stOpts) + 1] = StLeaf
           /\ /\ stRet.op = "put" /\ stRet.out.err # ErrPanic
              /\ PlaceOf("emitter") > 0 /\ PlaceOf("serialization") > 0
              => /\ Len(stRet.out.events) = 1
                 /\ IF PlaceOf("serialization") < PlaceOf("emitter")
                    THEN /\ stRet.out.events[1].key = BytesV(Itoa(stRet.key))
                         /\ stRet.out.events[1].value = BytesV(Itoa(stRet.val))
                    ELSE /\ stRet.out.events[1].key = IntV(stRet.key)
                         /\ stRet.out.events[1].value = IntV(stRet.val)

\* TestSerializingCache: Put(50, 60) on NewVoidStorage(Serialization, Emitter)
\* has published the bytes of "50" and "60".
C25_Witness ==
    /\ stOpts = <<"serialization", "emitter">>
    /\ StLeaf = "void"
    /\ stRet.op = "put"
    /\ stRet.out.trace = <<"serialization", "emitter", "void">>
    /\ stRet.out.events[1].key = BytesV(<<53, 48>>)
    /\ stRet.out.events[1].value = BytesV(<<54, 48>>)

(***************************************************************************)
(* Claim about capacity-driven eviction, checked under SpecCd.             *)
(***************************************************************************)
\* C29: Set evicts one popped entry per ErrCacheFull failure and returns nil
\* once the backend's Set succeeds, returns any other error of the backend
\* at once, and returns ErrCacheFull when the strategy has no entry left to
\* evict.
C29_SetRetries ==
    cdRet.op = "set" =>
        /\ cdRet.faulted => cdRet.err = ErrIO
        /\ cdRet.ranOut => cdRet.err = ErrCacheFull /\ cdRet.evicted = cdRet.fulls - 1
        /\ ~cdRet.faulted /\ ~cdRet.ranOut =>
              cdRet.err = NoErr /\ cdRet.evicted = cdRet.fulls

(***************************************************************************)
(* Further claims about the single-flight layer, checked under SpecSF.     *)
(***************************************************************************)
\* C31: on SingleFlight over Loader(f) over a memory leaf, when Put(k, v')
\* returned nil while a load of k was in flight, a Get(k) that starts after
\* the load has finished and its Call has left the table, with no further
\* Put or Remove of k, returns v'.
C31_PutSurvivesLoad ==
    \A p \in Procs :
        /\ pipe = "loadmem"
        /\ ret[p].op = "get"
        /\ gexp[p].kind = "put" /\ gexp[p].racing /\ gexp[p].quiet
        => ret[p].val = gexp[p].val /\ ret[p].err = NoErr

(***************************************************************************)
(* Further claims about the expiration layer, checked under SpecExpire.    *)
(***************************************************************************)
\* C32: a Put through the expiration layer sets the key's deadline to Now()
\* plus the TTL when the inner Put returns nil; when the inner Put fails it
\* returns that error and leaves every deadline record as it was.
C32_DeadlineOnSuccess ==
    xRet.op = "put" =>
        /\ xRet.inner = NoErr =>
              /\ xRet.err = NoErr
              /\ xRet.key \in DOMAIN xDates
              /\ xDates[xRet.key] = xNow + xRet.ttl
        /\ xRet.inner # NoErr => xRet.err = xRet.inner /\ xRet.kept

\* C33: through an expiration layer over a memory leaf, after any sequence
\* of Put, Get, Remove and Flush calls and clock advances, every key that
\* has a deadline record is present in the inner cache.
C33_DeadlinesFollowStorage ==
    xInner = "mem" => DOMAIN xDates \subseteq DOMAIN xStore

(***************************************************************************)
(* Further claims about the eviction layer, checked under SpecEvict.       *)
(***************************************************************************)
\* C34: the bounded eviction Put terminates. Its loop begins an iteration
\* only while the inner Len() >= max; each iteration removes one entry from
\* the inner cache or is the last (Pop returned none, or the inner Remove
\* returned false), so the loop makes at most Len() + 1 iterations; the inner
\* Put is then performed once, whichever way the loop ended.
C34_PutTerminates ==
    evRet.op = "put" =>
        LET mid == evRet.pre - evRet.evicted
        IN /\ evRet.evicted <= evRet.iters /\ evRet.iters <= evRet.evicted + 1
           /\ evRet.iters <= evRet.pre + 1
           /\ evRet.iters > 0 => evRet.pre - (evRet.iters - 1) >= evMaxLen
           /\ evRet.iters = evRet.evicted => mid < evMaxLen
           /\ IF evRet.inner = NoErr
              THEN /\ evRet.key \in DOMAIN evStore
                   /\ evStore[evRet.key] = evRet.val
                   /\ EvLen \in {mid, mid + 1}
              ELSE EvLen = mid

\* A Put on a full inner cache whose loop ended without removing anything
\* (Pop returned none, or the inner Remove returned false), and whose inner
\* Put then stored the entry.
C34_Witness ==
    /\ evRet.op = "put"
    /\ evRet.pre >= evMaxLen
    /\ evRet.iters = 1
    /\ evRet.evicted = 0
    /\ evRet.inner = NoErr
    /\ evRet.key \in DOMAIN evStore

(***************************************************************************)
(* The loader's errors, checked under SpecLoader.                          *)
(***************************************************************************)
\* C35: in a Get through Loader(f), an inner Get that fails with an error
\* other than ErrKeyNotFound is returned as it is and f is not called; when
\* f fails, nothing is written to the inner cache and f's error is returned;
\* when f succeeds and the write-back Put fails, the Put's error is returned.
C35_LoaderErrors ==
    lyKind = "loader" /\ lyRet.op = "get" =>
        LET l == lyRet.loader
        IN /\ lyRet.inner.err \notin {NoErr, ErrKeyNotFound} =>
                 /\ ~l.called /\ ~l.put
                 /\ lyRet.out.err = lyRet.inner.err
                 /\ lyStore = lyPre.store
           /\ l.called /\ l.f[2] # NoErr =>
                 /\ ~l.put
                 /\ lyRet.out.err = l.f[2]
                 /\ lyStore = lyPre.store
           /\ l.called /\ l.f[2] = NoErr /\ l.p # NoErr =>
                 /\ l.put
                 /\ lyRet.out.err = l.p

\* A Get that missed, loaded a value, and whose write-back Put failed
C35_Witness ==
    /\ lyKind = "loader"
    /\ lyRet.op = "get"
    /\ lyRet.inner.err = ErrKeyNotFound
    /\ lyRet.loader.called
    /\ lyRet.loader.f[2] = NoErr
    /\ lyRet.loader.put
    /\ lyRet.loader.p = ErrIO
    /\ lyRet.out.err = ErrIO

(***************************************************************************)
(* Claims about progress of the single-flight layer, checked under         *)
(* SpecSFLive.                                                             *)
(***************************************************************************)
\* C36: the single-flight operations never deadlock. Under fair scheduling
\* every Get, Put, Remove and Flush in progress eventually returns, the
\* layer's lock is released whenever it is held, and the hook of a resolved
\* Call is not kept waiting, although Put resolves a Call while it holds the
\* lock the hook needs.
C36_NoDeadlock ==
    /\ \A p \in Procs : (pc[p] # "idle") ~> (pc[p] = "idle")
    /\ (fmu # 0) ~> (fmu = 0)
    /\ \A i \in 1..MaxLiveOps :
          (i <= Len(cl) /\ cl[i].hook = "pending")
              ~> (i <= Len(cl) /\ cl[i].hook = "done")

\* A Put holds the layer's lock and is about to resolve the Call a Get of
\* the other caller waits for.
C36_Witness ==
    \E p, q \in Procs :
        /\ pc[p] = "putResolve" /\ fmu = p
        /\ pc[q] = "await" /\ arg[q].key = arg[p].key
        /\ fcalls[arg[p].key] = lcall[q]
        /\ ~cl[lcall[q]].resolved

\* C37: the table of Calls is cleaned up. Once a Call is resolved its hook
\* eventually deletes its entry, after which the table never names that Call;
\* the table is empty when every operation has returned and no hook is left
\* to run; and the hook of a Call deletes no entry but that Call's own, never
\* the entry of a newer Call of the key.
C37_TableCleanup ==
    /\ \A i \in 1..MaxLiveOps :
          (i <= Len(cl) /\ cl[i].resolved) ~> (i <= Len(cl) /\ cl[i].hook = "done")
    /\ [](\A i \in 1..Len(cl) : cl[i].hook = "done" => fcalls[cl[i].key] # i)
    /\ []((\A p \in Procs : pc[p] = "idle") /\ (\A i \in 1..Len(cl) : cl[i].hook # "pending")
            => \A k \in SFKeys : fcalls[k] = 0)
    /\ [][\A i \in 1..Len(cl) : SFCleanup(i) => fcalls[cl[i].key] = i]_vars

\* The hook of a Call has deleted its entry and the table holds a newer Call
\* of the same key.
C37_Witness ==
    \E i, j \in 1..Len(cl) :
        /\ i < j
        /\ cl[i].key = cl[j].key
        /\ cl[i].hook = "done"
        /\ fcalls[cl[j].key] = j

(***************************************************************************)
(* Claim about the bounded eviction layer under concurrent Puts, checked   *)
(* under SpecCe.                                                           *)
(***************************************************************************)
\* C38: with concurrent Puts of distinct fresh keys through LRUEviction(N)
\* over the memory leaf and no Locking layer, the leaf holds at most N
\* entries once every Put has returned.
C38_BoundUnderConcurrency ==
    (~ceFatal /\ \A p \in Procs : cePc[p] = "idle") => Cardinality(ceItems) <= ceMax

(***************************************************************************)
(* Claims about the structure of the strategies, checked under SpecStrat.  *)
(***************************************************************************)
\* C39: after any sequence of Added, Hit, Removed and Pop on the LRU
\* strategy, an Added of a tracked key included, the list holds each tracked
\* key exactly once and the map has exactly the keys of the list, each
\* mapped to its own node.
C39_LruStructure ==
    strat.kind = "LRU" =>
        /\ \A i, j \in 1..Len(strat.list) : strat.list[i].key = strat.list[j].key => i = j
        /\ \A i \in 1..Len(strat.list) : strat.list[i].ref

\* C40: after any sequence of Added, Hit, Removed and Pop on the LFU
\* strategy, an Added of a tracked key included, keys and counts are as long
\* as the index has keys, index[keys[i]] = i at every place i, and the count
\* of the parent of a place is at most the count at the place.
C40_LfuStructure ==
    strat.kind = "LFU" =>
        LET h == strat.heap
        IN /\ Len(h.keys) = Len(h.counts)
           /\ Len(h.keys) = Cardinality(DOMAIN h.index)
           /\ \A i \in 0..(Len(h.keys) - 1) :
                 /\ h.keys[i + 1] \in DOMAIN h.index
                 /\ h.index[h.keys[i + 1]] = i
           /\ \A i \in 1..(Len(h.keys) - 1) :
                 h.counts[((i - 1) \div 2) + 1] <= h.counts[i + 1]

====
